---- MODULE Spec2Model ----
(***************************************************************************)
(* A model of the progressive multiple-sequence-alignment engine of        *)
(* mas.cpp: the pairwise distance kernel, the distance-matrix workers, the *)
(* neighbour-joining guide tree, the profile alignment kernel and the      *)
(* progressive driver.                                                     *)
(*                                                                         *)
(* Floating point values are modelled by exact numbers: the distance       *)
(* kernel works in fifths (its gap costs are 10 and 0.2), everything else  *)
(* in normalised fractions <<numerator, denominator>>; the gap penalties   *)
(* of the alignment kernel are rounded to thousandths.                     *)
(***************************************************************************)
EXTENDS Integers, Sequences, FiniteSets, TLC

VARIABLES
    phase,      \* which component runs, and whether it has stopped
    data,       \* vector<entry>: the entries, indexed from 1
    mat,        \* the table of the distance kernel (kDistanceMatrix)
    dist,       \* the results of calculateDistance, by ordered pair of entries
    blocks,     \* the blocks (vectors of entry indices) aligned so far
    last,       \* the arguments and the column maps of the last align call
    tree,       \* vector<base_node*>: the nodes joinNeighbours still has to join
    nodes,      \* the guide tree nodes allocated so far, by node id
    dmat,       \* symmetric_matrix<float> d: its dimension and lower triangle
    queue,      \* distance_queue: the tuples put and not yet taken
    prod,       \* calculateDistanceMatrix: where its loops stand
    worker,     \* the worker threads: where each stands and the tuple it holds
    writes,     \* how often each cell of the distance matrix was put, taken, written
    mt,         \* MULTI_THREADED
    pc,         \* createAlignment: where the call for each interior node stands
    out,        \* createAlignment: the blocks a, b and alignment of each call
    msa,        \* mseq: the rows (seq_impl) of the alignment, the query first
    op,         \* the last operation on a row and what became of it
    hits,       \* hit_list of CreateHSSP
    res,        \* the ResidueHInfo whose variability is calculated
    cq,         \* buffer<uint32> b of CalculateConservation
    cprod,      \* CalculateConservation (driver): where it stands
    cworker,    \* the conservation workers: position and thread-local vectors
    csum,       \* the shared vectors sumvar and sumdist of the driver
    lock        \* sSumLock: the worker holding it, 0 when free

kernelVars == <<phase, data, mat, dist, blocks, last>>
treeVars == <<tree, nodes, dmat>>
queueVars == <<queue, prod, worker, writes>>
driverVars == <<mt, pc, out>>
hsspVars == <<msa, op, hits, res, cq, cprod, cworker, csum, lock>>
vars == <<kernelVars, treeVars, queueVars, driverVars, hsspVars>>

----------------------------------------------------------------------------
(* Bounds of the model *)

\* longest input sequence
MaxLen == 3

\* largest fixed position (PDB number) an entry carries; 0 means "no position"
MaxPos == 2

----------------------------------------------------------------------------
(* Residue alphabet *)

\* residue codes follow the order of kResidueSpecificPenalty: A R N D C Q E G
\* H I L K M F P S T W Y V are 0..19; the gap code lies outside that range
kSignalGapCode == 20

resS == 15
resI == 9
resM == 12

\* the residues the model draws its sequences from
Residues == {resS, resI, resM}

Min(a, b) == IF a <= b THEN a ELSE b
Max(a, b) == IF a >= b THEN a ELSE b

SeqsOf(S, lo, hi) == UNION {[1..n -> S] : n \in lo..hi}

----------------------------------------------------------------------------
(* Substitution tables.  The named tables of the registry (GONNET250, the  *)
(* BLOSUM and PAM series) are symmetric log-odds tables whose diagonal is  *)
(* positive and larger than every other entry of its row.                  *)

\* the table with diagonal dS, dI, dM and off-diagonal entries oSI, oSM, oIM
MkTable(dS, dI, dM, oSI, oSM, oIM) ==
    [p \in Residues \X Residues |->
        CASE p = <<resS, resS>> -> dS
          [] p = <<resI, resI>> -> dI
          [] p = <<resM, resM>> -> dM
          [] p \in {<<resS, resI>>, <<resI, resS>>} -> oSI
          [] p \in {<<resS, resM>>, <<resM, resS>>} -> oSM
          [] OTHER -> oIM]

ScoreTables ==
    {MkTable(dS, dI, dM, oSI, oSM, oIM) :
        dS \in {2}, dI \in {4, 14}, dM \in {4},
        oSI \in {-1}, oSM \in {-1}, oIM \in {-1, 2}}

\* substitution_matrix::operator()
SubstScore(t, a, b) == t[<<a, b>>]

----------------------------------------------------------------------------
(* Pairwise distance kernel: calculateDistance(const entry&, const entry&) *)

\* the kernel's float values are held in fifths: 0.2 is 1
DistUnit == 5
\* the gap-open cost with its sign reversed
GapOpenBonus == -10 * DistUnit
kDistanceGapOpen == 10 * DistUnit
kDistanceGapExtend == 1

\* -numeric_limits<float>::max()
NegFltMax == -1000000

\* element i (counted from 0) of a vector
At(s, i) == s[i + 1]

Cells(dimX, dimY) == (0 .. dimX - 1) \X (0 .. dimY - 1)

RECURSIVE SkipX(_, _, _, _, _, _)
SkipX(pa, pb, dimX, dimY, endX, endY) ==
    IF endX < dimX /\ (endY = dimY \/ At(pa, endX) < At(pb, endY))
    THEN SkipX(pa, pb, dimX, dimY, endX + 1, endY)
    ELSE endX

RECURSIVE SkipY(_, _, _, _, _, _)
SkipY(pa, pb, dimX, dimY, endX, endY) ==
    IF endY < dimY /\ (endX = dimX \/ At(pb, endY) < At(pa, endX))
    THEN SkipY(pa, pb, dimX, dimY, endX, endY + 1)
    ELSE endY

\* the loop that moves endX, endY to the next anchor (or to the end)
RECURSIVE AdvanceEnd(_, _, _, _, _, _)
AdvanceEnd(pa, pb, dimX, dimY, endX, endY) ==
    IF ~(endX < dimX \/ endY < dimY) THEN <<endX, endY>>
    ELSE IF endX < dimX /\ At(pa, endX) = 0
    THEN AdvanceEnd(pa, pb, dimX, dimY, endX + 1, endY)
    ELSE IF endY < dimY /\ At(pb, endY) = 0
    THEN AdvanceEnd(pa, pb, dimX, dimY, endX, endY + 1)
    ELSE IF endX < dimX /\ endY < dimY /\ At(pa, endX) = At(pb, endY)
            /\ At(pa, endX) # 0
    THEN <<endX, endY>>
    ELSE LET ex == IF endX < dimX
                   THEN SkipX(pa, pb, dimX, dimY, endX, endY) ELSE endX
             ey == IF endY < dimY
                   THEN SkipY(pa, pb, dimX, dimY, ex, endY) ELSE endY
         IN  IF ex < dimX /\ ey < dimY /\ At(pa, ex) # At(pb, ey)
             THEN AdvanceEnd(pa, pb, dimX, dimY, ex, ey)
             ELSE <<ex, ey>>

\* which of the three scores a cell takes: 0 match, 1 Ix, -1 Iy
PickBranch(M, Ix1, Iy1) ==
    IF M >= Ix1 /\ M >= Iy1 THEN 0
    ELSE IF Ix1 >= Iy1 THEN 1
    ELSE -1

\* the guard without the window: every cell off the first row and column
InnerAnywhere(x, y, startX, startY) == x > 0 /\ y > 0

\* "if (x > startX and y > startY)": the cell has a diagonal neighbour in
\* the window
Inner(x, y, startX, startY) == x > startX /\ y > startY

\* whether cell (x, y) with score s replaces the best last-row/column cell
DistNewHigh(x, y, endX, endY, high, s) ==
    (x = endX - 1 \/ y = endY - 1) /\ high < s

\* the body of the inner loop for cell (x, y) of the window
DistCell(a, b, t, startX, startY, endX, endY, x, y, st) ==
    LET Ix1 == IF x > startX THEN st.Ix[<<x - 1, y>>] ELSE 0
        Iy1 == IF y > startY THEN st.Iy[<<x, y - 1>>] ELSE 0
        inner == Inner(x, y, startX, startY)
        M0  == DistUnit * SubstScore(t, At(a.seq, x), At(b.seq, y))
        M   == IF inner THEN M0 + st.B[<<x - 1, y - 1>>] ELSE M0
        i0  == IF At(a.seq, x) = At(b.seq, y) THEN 1 ELSE 0
        br  == PickBranch(M, Ix1, Iy1)
        i   == CASE br = 0  -> i0 + (IF inner THEN st.id[<<x - 1, y - 1>>] ELSE 0)
                 [] br = 1  -> i0 + (IF x > startX THEN st.id[<<x - 1, y>>] ELSE 0)
                 [] br = -1 -> i0 + (IF y > startY THEN st.id[<<x, y - 1>>] ELSE 0)
        s   == CASE br = 0 -> M [] br = 1 -> Ix1 [] br = -1 -> Iy1
        hi  == DistNewHigh(x, y, endX, endY, st.high, s)
    IN  [B  |-> [st.B EXCEPT ![<<x, y>>] = s],
         id |-> [st.id EXCEPT ![<<x, y>>] = i],
         Ix |-> [st.Ix EXCEPT ![<<x, y>>] =
                    Max(M - kDistanceGapOpen, Ix1 - kDistanceGapExtend)],
         Iy |-> [st.Iy EXCEPT ![<<x, y>>] =
                    Max(M - kDistanceGapOpen, Iy1 - kDistanceGapExtend)],
         high |-> IF hi THEN s ELSE st.high,
         highIdSub |-> IF hi THEN i ELSE st.highIdSub]

\* for (x = startX; x < endX; ++x) for (y = startY; y < endY; ++y)
RECURSIVE DistFill(_, _, _, _, _, _, _, _, _, _)
DistFill(a, b, t, startX, startY, endX, endY, x, y, st) ==
    IF x >= endX THEN st
    ELSE IF y >= endY
    THEN DistFill(a, b, t, startX, startY, endX, endY, x + 1, startY, st)
    ELSE CHOOSE r \in
            {DistFill(a, b, t, startX, startY, endX, endY, x, y + 1, c) :
                c \in {DistCell(a, b, t, startX, startY, endX, endY, x, y, st)}} :
            TRUE

\* while (x < dimX and y < dimY)
RECURSIVE DistLoop(_, _, _, _)
DistLoop(a, b, t, st) ==
    LET dimX == Len(a.seq)
        dimY == Len(b.seq)
        pa == a.positions
        pb == b.positions
        x == st.x
        y == st.y
    IN
    IF ~(x < dimX /\ y < dimY) THEN st
    ELSE IF x = st.endX /\ y = st.endY /\ At(pa, x) = At(pb, y) /\ At(pa, x) # 0
    THEN DistLoop(a, b, t,
            [st EXCEPT !.highId = @ + (IF At(a.seq, x) = At(b.seq, y) THEN 1 ELSE 0),
                       !.x = x + 1, !.endX = @ + 1,
                       !.y = y + 1, !.endY = @ + 1])
    ELSE
        LET e == AdvanceEnd(pa, pb, dimX, dimY, st.endX, st.endY)
            endX == e[1]
            endY == e[2]
            w0 == [B  |-> st.B,
                   Ix |-> [st.Ix EXCEPT ![<<x, y>>] = 0],
                   Iy |-> [st.Iy EXCEPT ![<<x, y>>] = 0],
                   id |-> IF x > 0 /\ y > 0
                          THEN [st.id EXCEPT ![<<x - 1, y - 1>>] = st.highId]
                          ELSE st.id,
                   high |-> NegFltMax,
                   highIdSub |-> 0]
        IN  CHOOSE r \in
                {DistLoop(a, b, t, n) :
                    n \in {[x |-> e[1], y |-> e[2], endX |-> e[1], endY |-> e[2],
                            highId |-> st.highId + w.highIdSub,
                            B |-> w.B, Ix |-> w.Ix, Iy |-> w.Iy, id |-> w.id] :
                           w \in {DistFill(a, b, t, x, y, endX, endY, x, y, w0)}}} :
                TRUE

\* the identity count and the divisor of "1 - highId / max(dimX, dimY)"
calculateDistance(a, b, t) ==
    LET dimX == Len(a.seq)
        dimY == Len(b.seq)
        zero == [c \in Cells(dimX, dimY) |-> 0]
        noPos == a.positions = <<>> \/ b.positions = <<>>
        fin == DistLoop(a, b, t,
                  [x |-> 0, y |-> 0,
                   endX |-> IF noPos THEN dimX ELSE 0,
                   endY |-> IF noPos THEN dimY ELSE 0,
                   highId |-> 0,
                   B |-> zero, Ix |-> zero, Iy |-> zero, id |-> zero])
    IN  [highId |-> fin.highId, len |-> Max(dimX, dimY)]

\* the float the kernel returns, as a fraction <<numerator, denominator>>
DistResult(r) == <<r.len - r.highId, r.len>>

----------------------------------------------------------------------------
(* Fractions <<n, d>> with d > 0 and gcd(n, d) = 1 stand for the floats of *)
(* the tree builder and of the alignment kernel.                           *)

Abs(n) == IF n < 0 THEN -n ELSE n

RECURSIVE Gcd(_, _)
Gcd(a, b) == IF b = 0 THEN a ELSE Gcd(b, a % b)

Norm(n, d) == LET g == Gcd(Abs(n), d) IN <<n \div g, d \div g>>
Frac(n, d) == IF d < 0 THEN Norm(-n, -d) ELSE Norm(n, d)
FInt(n)    == <<n, 1>>
FZero      == <<0, 1>>
FOne       == <<1, 1>>
\* p and q over their least common denominator: <<n1, n2, d>>
Common(p, q) ==
    LET g == Gcd(p[2], q[2])
    IN  <<p[1] * (q[2] \div g), q[1] * (p[2] \div g), (p[2] \div g) * q[2]>>
FAdd(p, q) == LET c == Common(p, q) IN Norm(c[1] + c[2], c[3])
FSub(p, q) == LET c == Common(p, q) IN Norm(c[1] - c[2], c[3])
FMul(p, q) == Norm(p[1] * q[1], p[2] * q[2])
FDiv(p, q) == Frac(p[1] * q[2], p[2] * q[1])
FLe(p, q)  == LET c == Common(p, q) IN c[1] <= c[2]
FLt(p, q)  == LET c == Common(p, q) IN c[1] < c[2]
\* p rounded to the nearest thousandth, the precision kept for gap penalties
Round3(p)  == Norm((2000 * p[1] + p[2]) \div (2 * p[2]), 1000)
FMax(p, q) == IF FLt(p, q) THEN q ELSE p
FAbs(p)    == <<Abs(p[1]), p[2]>>

RECURSIVE FSum(_)
FSum(fs) == IF fs = <<>> THEN FZero ELSE FAdd(fs[1], FSum(Tail(fs)))

\* log10 of the lengths the model reaches, in thousandths
Log10Milli ==
    <<0, 301, 477, 602, 699, 778, 845, 903, 954, 1000,
      1041, 1079, 1114, 1146, 1176, 1204, 1230, 1255, 1279, 1301>>
Log10(n) == Frac(Log10Milli[n], 1000)

----------------------------------------------------------------------------
(* entry: gap insertion *)

InsertAt(s, pos, v) == SubSeq(s, 1, pos) \o <<v>> \o SubSeq(s, pos + 1, Len(s))

\* insert_gap that leaves the positions vector alone
insert_gap_seq_only(e, pos) ==
    IF pos > Len(e.seq)
    THEN [e EXCEPT !.seq = Append(@, kSignalGapCode)]
    ELSE [e EXCEPT !.seq = InsertAt(@, pos, kSignalGapCode)]

\* insert_gap that puts the 0 at the end of the positions vector
insert_gap_push_back(e, pos) ==
    IF pos > Len(e.seq)
    THEN [e EXCEPT !.seq = Append(@, kSignalGapCode),
                   !.positions = IF @ # <<>> THEN Append(@, 0) ELSE @]
    ELSE [e EXCEPT !.seq = InsertAt(@, pos, kSignalGapCode),
                   !.positions = IF @ # <<>> THEN Append(@, 0) ELSE @]

\* entry::insert_gap
insert_gap(e, pos) ==
    IF pos > Len(e.seq)
    THEN [e EXCEPT !.seq = Append(@, kSignalGapCode),
                   !.positions = IF @ # <<>> THEN Append(@, 0) ELSE @]
    ELSE [e EXCEPT !.seq = InsertAt(@, pos, kSignalGapCode),
                   !.positions = IF @ # <<>> THEN InsertAt(@, pos, 0) ELSE @]

\* entry::append_gap
append_gap(e) ==
    [e EXCEPT !.seq = Append(@, kSignalGapCode),
              !.positions = IF @ # <<>> THEN Append(@, 0) ELSE @]

\* foreach (entry* e, blk) e->insert_gap(pos)
InsertGapAll(store, blk, pos) ==
    [i \in DOMAIN store |->
        IF \E k \in DOMAIN blk : blk[k] = i
        THEN insert_gap(store[i], pos) ELSE store[i]]

----------------------------------------------------------------------------
(* substitution_matrix_family and column scores *)

\* the non-negative companion of a table: its minimum is subtracted
PositiveTable(t) ==
    LET lo == CHOOSE v \in {t[p] : p \in DOMAIN t} :
                  \A q \in DOMAIN t : v <= t[q]
    IN  [p \in DOMAIN t |-> t[p] - lo]

\* substitution_matrix_family::operator(): the index of the table to use
FamilyIndex(cutoff, distance) ==
    LET RECURSIVE walk(_)
        walk(ix) == IF FLt(distance, cutoff[ix + 1]) /\ ix < 3
                    THEN walk(ix + 1) ELSE ix
    IN  walk(0)

\* score(a, b, ix_a, ix_b, mat)
score(store, a, b, ix_a, ix_b, t) ==
    LET term(i, j) ==
            LET ra == At(store[a[i]].seq, ix_a)
                rb == At(store[b[j]].seq, ix_b)
            IN  IF ra # kSignalGapCode /\ rb # kSignalGapCode
                THEN FMul(FMul(store[a[i]].weight, store[b[j]].weight),
                          FInt(SubstScore(t, ra, rb)))
                ELSE FZero
        RECURSIVE sumB(_, _)
        sumB(i, j) == IF j > Len(b) THEN FZero
                      ELSE FAdd(term(i, j), sumB(i, j + 1))
        RECURSIVE sumA(_)
        sumA(i) == IF i > Len(a) THEN FZero
                   ELSE FAdd(sumB(i, 1), sumA(i + 1))
    IN  FDiv(sumA(1), FInt(Len(a) * Len(b)))

----------------------------------------------------------------------------
(* adjust_gp: position specific gap penalties of one block *)

\* kResidueSpecificPenalty, in hundredths
kResidueSpecificPenalty ==
    <<93, 52, 43, 76, 93, 87, 111, 41, 80, 112,
      101, 76, 109, 100, 54, 56, 69, 103, 80, 105>>

\* is_hydrophilic: the residues D E G K N Q P R S
is_hydrophilic(r) == r \in {3, 6, 7, 11, 2, 5, 14, 1, 15}

\* the number of rows of the block with a gap in column ix
GapRows(store, blk, ix) ==
    Cardinality({k \in DOMAIN blk : At(store[blk[k]].seq, ix) = kSignalGapCode})

\* what one row adds to residue_specific_penalty[ix]
RowPenalty(e, ix) ==
    IF ix < Len(e.ss)
    THEN CASE At(e.ss, ix) \in {"H", "G", "I"} -> FInt(3)
           [] At(e.ss, ix) = "B" -> FInt(2)
           [] At(e.ss, ix) = "E" -> Frac(3, 2)
           [] OTHER -> FOne
    ELSE IF At(e.seq, ix) < 20
    THEN Frac(kResidueSpecificPenalty[At(e.seq, ix) + 1], 100)
    ELSE FOne

\* the columns one row marks as hydrophilic stretch: runs of 5 or more
RowStretch(s, size) ==
    LET RECURSIVE scan(_, _, _)
        scan(si, i, marked) ==
            IF i > size THEN marked
            ELSE IF i = size \/ ~is_hydrophilic(At(s, i))
            THEN scan(i + 1, i + 1,
                      IF i >= si + 5 THEN marked \cup (si .. i - 1) ELSE marked)
            ELSE scan(si, i + 1, marked)
    IN  scan(0, 0, {})

\* the columns that every row marks
HydrophilicStretchEveryRow(store, blk, size) ==
    {ix \in 0 .. size - 1 :
        \A k \in DOMAIN blk : ix \in RowStretch(store[blk[k]].seq, size)}

\* hydrophilic_stretch after the loop over the rows
HydrophilicStretch(store, blk, size) ==
    UNION {RowStretch(store[blk[k]].seq, size) : k \in DOMAIN blk}

\* the factor of the "gap within 8 residues" loop; 1 when the loop ends unbroken
ProximityFactor(gaps, size, ix) ==
    LET hit(d) == \/ ix + d >= size
                  \/ gaps[ix + d] > 0
                  \/ ix - d < 0
                  \/ gaps[ix - d] > 0
        RECURSIVE look(_)
        look(d) == IF d >= 8 THEN FOne
                   ELSE IF hit(d) THEN Frac(2 + (8 - d) * 2, 8)
                   ELSE look(d + 1)
    IN  look(0)

\* adjust_gp(gop, gep, seq): the adjusted <<gop, gep>> vectors (indexed from 1)
adjust_gp(gop, gep, store, blk) ==
    LET size == Len(gop)
        rows == Len(blk)
        gaps == [ix \in 0 .. size - 1 |-> GapRows(store, blk, ix)]
        stretch == HydrophilicStretch(store, blk, size)
        penalty(ix) == FSum([k \in DOMAIN blk |-> RowPenalty(store[blk[k]], ix)])
        newGop(ix) ==
            IF gaps[ix] > 0
            THEN FMul(At(gop, ix), FMul(Frac(3, 10), Frac(rows - gaps[ix], rows)))
            ELSE LET g1 == FMul(At(gop, ix), ProximityFactor(gaps, size, ix))
                 IN  IF ix \in stretch
                     THEN FDiv(g1, FInt(3))
                     ELSE FMul(g1, FDiv(penalty(ix), FInt(rows)))
        newGep(ix) ==
            IF gaps[ix] > 0 THEN FDiv(At(gep, ix), FInt(2)) ELSE At(gep, ix)
    IN  <<[i \in 1 .. size |-> newGop(i - 1)], [i \in 1 .. size |-> newGep(i - 1)]>>

----------------------------------------------------------------------------
(* Profile alignment kernel: align(node, a, b, c, mat_fam, gop, gep, magic, *)
(* ignorePositions).  A block is a vector of indices into the entry store.  *)

\* the substitution family of the run: cutoffs and the four signed tables
Family ==
    [cutoff |-> <<Frac(4, 5), Frac(3, 5), Frac(3, 10), FZero>>,
     smat   |-> <<MkTable(2, 4, 4, -1, -1, -1), MkTable(2, 4, 4, -1, -1, 2),
                  MkTable(2, 14, 4, -1, -1, -1), MkTable(2, 14, 4, -1, -1, 2)>>]

\* substitution_matrix::mismatch_average: the mean of the negative scores
mismatch_average(t) ==
    LET neg == {p \in DOMAIN t : t[p] < 0}
        RECURSIVE total(_)
        total(S) == IF S = {} THEN 0
                    ELSE LET p == CHOOSE q \in S : TRUE
                         IN  t[p] + total(S \ {p})
    IN  IF neg = {} THEN FZero ELSE Frac(total(neg), Cardinality(neg))

\* substitution_matrix::scale_factor
scale_factor(t) == FOne

\* the options main passes for regular alignments
DefaultGop   == Frac(10, 1)
DefaultGep   == Frac(1, 5)
DefaultMagic == Frac(1, 10)

SetCells(tb, cells, v) ==
    [c \in DOMAIN tb |-> IF c \in cells THEN v ELSE tb[c]]

\* which of the three scores a cell takes: 0 match, 1 Ix, -1 Iy
AlignBranch(M, Ix1, Iy1) ==
    IF FLe(Ix1, M) /\ FLe(Iy1, M) THEN 0
    ELSE IF FLe(Iy1, Ix1) THEN 1
    ELSE -1

\* whether cell (x, y) with score s becomes the best last-row/column cell
AlignNewHigh(x, y, endX, endY, high, s) ==
    (x = endX - 1 \/ y = endY - 1) /\ FLe(high, s)

\* the body of the inner loop for cell (x, y) of the window
AlignCell(store, a, b, t, gp, dimX, dimY, startX, startY, endX, endY, x, y, st) ==
    LET Ix1 == IF x > startX THEN st.Ix[<<x - 1, y>>] ELSE FZero
        Iy1 == IF y > startY THEN st.Iy[<<x, y - 1>>] ELSE FZero
        M0  == score(store, a, b, x, y, t)
        cell(M, br) ==
            LET s  == CASE br = 0 -> M [] br = 1 -> Ix1 [] br = -1 -> Iy1
                hi == AlignNewHigh(x, y, endX, endY, st.high, s)
            IN  [B  |-> [st.B EXCEPT ![<<x, y>>] = s],
                 tb |-> [st.tb EXCEPT ![<<x, y>>] = br],
                 Ix |-> [st.Ix EXCEPT ![<<x, y>>] =
                            FMax(FSub(M, IF x < dimX - 1 THEN At(gp.gop_a, x) ELSE FZero),
                                 FSub(Ix1, At(gp.gep_a, x)))],
                 Iy |-> [st.Iy EXCEPT ![<<x, y>>] =
                            FMax(FSub(M, IF y < dimY - 1 THEN At(gp.gop_b, y) ELSE FZero),
                                 FSub(Iy1, At(gp.gep_b, y)))],
                 high  |-> IF hi THEN s ELSE st.high,
                 highX |-> IF hi THEN x ELSE st.highX,
                 highY |-> IF hi THEN y ELSE st.highY]
    IN  CHOOSE r \in
            {cell(M, AlignBranch(M, Ix1, Iy1)) :
                M \in {IF x > startX /\ y > startY
                       THEN FAdd(M0, st.B[<<x - 1, y - 1>>]) ELSE M0}} : TRUE

RECURSIVE AlignFill(_, _, _, _, _, _, _, _, _, _, _, _, _, _)
AlignFill(store, a, b, t, gp, dimX, dimY, startX, startY, endX, endY, x, y, st) ==
    IF x >= endX THEN st
    ELSE IF y >= endY
    THEN AlignFill(store, a, b, t, gp, dimX, dimY, startX, startY, endX, endY,
                   x + 1, startY, st)
    ELSE AlignFill(store, a, b, t, gp, dimX, dimY, startX, startY, endX, endY,
                   x, y + 1,
                   AlignCell(store, a, b, t, gp, dimX, dimY, startX, startY,
                             endX, endY, x, y, st))

\* the forcing with the two sides exchanged: the row above the window to
\* -1, the column left of it to 1
ForceBeforeSwapped(tb, x, y, endX, endY) ==
    LET t1 == IF y > 0
              THEN SetCells(tb, {<<ix, y - 1>> : ix \in x .. endX - 1}, -1)
              ELSE tb
    IN  IF x > 0
        THEN SetCells(t1, {<<x - 1, iy>> : iy \in y .. endY - 1}, 1)
        ELSE t1

\* the cells forced before a window is filled: the row above it to 1, the
\* column left of it to -1
ForceBefore(tb, x, y, endX, endY) ==
    LET t1 == IF y > 0
              THEN SetCells(tb, {<<ix, y - 1>> : ix \in x .. endX - 1}, 1)
              ELSE tb
    IN  IF x > 0
        THEN SetCells(t1, {<<x - 1, iy>> : iy \in y .. endY - 1}, -1)
        ELSE t1

\* the cells forced after a window: the last row right of the best cell to
\* 1, the last column below it to -1 (toX, toY bound the two loops)
ForceAfter(tb, highX, highY, endX, endY, toX, toY) ==
    LET t1 == IF endY > 0
              THEN SetCells(tb, {<<ix, endY - 1>> : ix \in highX + 1 .. toX - 1}, 1)
              ELSE tb
    IN  IF endX > 0
        THEN SetCells(t1, {<<endX - 1, iy>> : iy \in highY + 1 .. toY - 1}, -1)
        ELSE t1

\* while (x < dimX and y < dimY)
RECURSIVE AlignLoop(_, _, _, _, _, _, _, _)
AlignLoop(store, a, b, t, gp, pa, pb, st) ==
    LET dimX == Len(store[a[1]].seq)
        dimY == Len(store[b[1]].seq)
        x == st.x
        y == st.y
    IN
    IF ~(x < dimX /\ y < dimY) THEN st
    ELSE IF x = st.endX /\ y = st.endY /\ At(pa, x) = At(pb, y) /\ At(pa, x) # 0
    THEN AlignLoop(store, a, b, t, gp, pa, pb,
            [st EXCEPT !.tb = [@ EXCEPT ![<<x, y>>] = 0],
                       !.highX = x, !.highY = y,
                       !.x = x + 1, !.endX = @ + 1,
                       !.y = y + 1, !.endY = @ + 1])
    ELSE
        LET e == AdvanceEnd(pa, pb, dimX, dimY, st.endX, st.endY)
            endX == e[1]
            endY == e[2]
            w0 == [B  |-> st.B,
                   Ix |-> [st.Ix EXCEPT ![<<x, y>>] = FZero],
                   Iy |-> [st.Iy EXCEPT ![<<x, y>>] = FZero],
                   tb |-> ForceBefore(st.tb, x, y, endX, endY),
                   high |-> FZero, highX |-> st.highX, highY |-> st.highY]
        IN  CHOOSE r \in
                {AlignLoop(store, a, b, t, gp, pa, pb,
                    [x |-> endX, y |-> endY, endX |-> endX, endY |-> endY,
                     highX |-> w.highX, highY |-> w.highY,
                     B |-> w.B, Ix |-> w.Ix, Iy |-> w.Iy,
                     tb |-> ForceAfter(w.tb, w.highX, w.highY, endX, endY,
                                       endX, endY)]) :
                    w \in {AlignFill(store, a, b, t, gp, dimX, dimY, x, y,
                                     endX, endY, x, y, w0)}} : TRUE

\* trace back the matrix, then insert the start gaps
RECURSIVE Traceback(_, _, _, _, _, _)
Traceback(store, a, b, tb, x, y) ==
    IF x >= 0 /\ y >= 0
    THEN CASE tb[<<x, y>>] = -1 ->
                Traceback(InsertGapAll(store, a, x + 1), a, b, tb, x, y - 1)
           [] tb[<<x, y>>] = 1 ->
                Traceback(InsertGapAll(store, b, y + 1), a, b, tb, x - 1, y)
           [] tb[<<x, y>>] = 0 ->
                Traceback(store, a, b, tb, x - 1, y - 1)
           [] OTHER -> [returned |-> FALSE, store |-> store]
    ELSE IF x >= 0
    THEN Traceback(InsertGapAll(store, b, y + 1), a, b, tb, x - 1, y)
    ELSE IF y >= 0
    THEN Traceback(InsertGapAll(store, a, x + 1), a, b, tb, x, y - 1)
    ELSE [returned |-> TRUE, store |-> store]

\* What the build leaves to chance: with NDEBUG the traceback matrix is not
\* filled before use and the assertions are compiled out, so an unassigned
\* cell holds junk (2 stands for every value outside -1 .. 1) and a read
\* behind the end of a positions vector yields oob.
Builds ==
    {[ndebug |-> FALSE, junk |-> 2, oob |-> 0]}
        \cup {[ndebug |-> TRUE, junk |-> j, oob |-> o] :
                j \in {-1, 0, 1, 2}, o \in {0, 1}}

\* the marker of a traceback cell no statement has assigned
Unassigned == 2

\* the fill: everything align does before "build the alignment"
AlignMatrix(store, a, b, dsum, gop, gep, magic, ignorePositions) ==
    LET fa == store[a[1]]
        fb == store[b[1]]
        pa == fa.positions
        pb == fb.positions
        dimX == Len(fa.seq)
        dimY == Len(fb.seq)
        signed == Family.smat[FamilyIndex(Family.cutoff, FAbs(dsum)) + 1]
        smat == PositiveTable(signed)
        minLength == Min(dimX, dimY)
        maxLength == Max(dimX, dimY)
        logdiff == FAdd(FOne, FDiv(FSub(Log10(minLength), Log10(maxLength)), FInt(2)))
        \* gop / (logdiff * logmin) with logmin = 1 / log10(minLength)
        gop1 == Round3(FMul(FMul(FMul(FDiv(FMul(gop, Log10(minLength)), logdiff),
                                      FAbs(mismatch_average(signed))),
                                 scale_factor(signed)), magic))
        avg_weight_a == FDiv(FSum([k \in DOMAIN a |-> store[a[k]].weight]), FInt(Len(a)))
        avg_weight_b == FDiv(FSum([k \in DOMAIN b |-> store[b[k]].weight]), FInt(Len(b)))
        gep_a0 == Round3(FMul(FMul(gep, FAdd(FOne, FSub(Log10(dimX), Log10(dimY)))),
                              avg_weight_a))
        gep_b0 == Round3(FMul(FMul(gep, FAdd(FOne, FSub(Log10(dimY), Log10(dimX)))),
                              avg_weight_b))
        ga == adjust_gp([i \in 1 .. dimX |-> FMul(gop1, avg_weight_a)],
                        [i \in 1 .. dimX |-> gep_a0], store, a)
        gb == adjust_gp([i \in 1 .. dimY |-> FMul(gop1, avg_weight_b)],
                        [i \in 1 .. dimY |-> gep_b0], store, b)
        r3(v) == [i \in DOMAIN v |-> Round3(v[i])]
        gp == [gop_a |-> r3(ga[1]), gep_a |-> r3(ga[2]),
               gop_b |-> r3(gb[1]), gep_b |-> r3(gb[2])]
        whole == ignorePositions \/ pa = <<>> \/ pb = <<>>
        zero == [c \in Cells(dimX, dimY) |-> FZero]
        start == [x |-> 0, y |-> 0,
                  endX |-> IF whole THEN dimX ELSE 0,
                  endY |-> IF whole THEN dimY ELSE 0,
                  highX |-> 0, highY |-> 0,
                  B |-> zero, Ix |-> zero, Iy |-> zero,
                  tb |-> [c \in Cells(dimX, dimY) |-> Unassigned]]
    IN  CHOOSE r \in
            {ForceAfter(fin.tb, fin.highX, fin.highY, fin.endX, fin.endY,
                        dimX, dimY) :
                fin \in {AlignLoop(store, a, b, t, g, pa, pb, start) :
                            t \in {smat}, g \in {gp}}} : TRUE

\* the element-wise maximum written to the positions of c.front()
MergePositions(pa, pb, env) ==
    [i \in 1 .. Len(pa) |-> Max(pa[i], IF i <= Len(pb) THEN pb[i] ELSE env.oob)]

\* everything from "build the alignment" on; tb is the matrix of the fill
AlignBuild(store, a, b, tb, ignorePositions, env) ==
    LET dimX == Len(store[a[1]].seq)
        dimY == Len(store[b[1]].seq)
        held == [c \in DOMAIN tb |-> IF tb[c] = Unassigned THEN env.junk ELSE tb[c]]
        tr == Traceback(store, a, b, held, dimX - 1, dimY - 1)
        pa == tr.store[a[1]].positions
        pb == tr.store[b[1]].positions
        merge == ~ignorePositions /\ pa # <<>>
    IN  IF ~tr.returned \/ (merge /\ ~env.ndebug /\ Len(pa) # Len(pb))
        THEN [returned |-> FALSE, store |-> tr.store, c |-> <<>>]
        ELSE [returned |-> TRUE,
              store |-> IF merge
                        THEN [tr.store EXCEPT ![a[1]].positions =
                                                MergePositions(pa, pb, env)]
                        ELSE tr.store,
              c |-> a \o b]

\* align: the entries after the call, the merged block c, and whether the
\* call returned (it does not when an assertion fails or the traceback
\* meets a value it has no case for)
align(store, a, b, dsum, gop, gep, magic, ignorePositions, env) ==
    AlignBuild(store, a, b,
               AlignMatrix(store, a, b, dsum, gop, gep, magic, ignorePositions),
               ignorePositions, env)

----------------------------------------------------------------------------
(* Inputs *)

NoResult == [highId |-> -1, len |-> 0]
NoCall == [a |-> <<>>, b |-> <<>>, before |-> <<>>, returned |-> FALSE,
           colA |-> <<>>, colB |-> <<>>, tb |-> <<>>]

Entry(s, p) == [seq |-> s, positions |-> p, ss |-> <<>>, weight |-> FOne]

\* the residues of the generated sequences
InputResidues == {resS, resI}

\* the sequence of length n that carries positions in the generated inputs
Canonical(n) == [i \in 1 .. n |-> IF i % 2 = 1 THEN resS ELSE resI]

\* entries without positions over every sequence, and entries with every
\* positions vector over one sequence of each length
EntryPool ==
    {Entry(s, <<>>) : s \in SeqsOf(InputResidues, 1, MaxLen)}
        \cup UNION {{Entry(Canonical(n), p) : p \in [1 .. n -> 0 .. MaxPos]} :
                        n \in 1 .. MaxLen}

\* the components that do not run
NoKernel == mat = <<>> /\ dist = <<>> /\ blocks = {} /\ last = NoCall
NoTree   == tree = <<>> /\ nodes = <<>> /\ dmat = <<>>
NoQueue  == queue = <<>> /\ prod = <<>> /\ worker = <<>> /\ writes = <<>>
NoDriver == mt = FALSE /\ pc = <<>> /\ out = <<>>
NoRows   == msa = <<>> /\ op = <<>>
NoHits   == hits = <<>> /\ res = <<>>
NoCons   == cq = <<>> /\ cprod = <<>> /\ cworker = <<>> /\ csum = <<>> /\ lock = 0
NoHssp   == NoRows /\ NoHits /\ NoCons

----------------------------------------------------------------------------
(* Specification of the distance kernel: calculateDistance applied to both  *)
(* orders of a pair of entries.                                             *)

DistPairs == {<<1, 2>>, <<2, 1>>}

DistInit ==
    /\ phase = "distance"
    /\ data \in {<<e1, e2>> : e1, e2 \in EntryPool}
    /\ mat \in ScoreTables
    /\ dist = [p \in DistPairs |-> NoResult]
    /\ blocks = {}
    /\ last = NoCall
    /\ NoTree /\ NoQueue /\ NoDriver /\ NoHssp

\* dist(i, j) = calculateDistance(data[i], data[j])
DistancePair(i, j) ==
    /\ phase = "distance"
    /\ dist[<<i, j>>] = NoResult
    /\ dist' = [dist EXCEPT ![<<i, j>>] = calculateDistance(data[i], data[j], mat)]
    /\ UNCHANGED <<phase, data, mat, blocks, last>>
    /\ UNCHANGED <<hsspVars, treeVars, queueVars, driverVars>>

DistNext == \E p \in DistPairs : DistancePair(p[1], p[2])

SpecDist == DistInit /\ [][DistNext]_vars

----------------------------------------------------------------------------
(* Specification of the alignment kernel: blocks of entries are merged by   *)
(* align, in any order, as createAlignment does along a guide tree.         *)

\* the values of node->m_d_left + node->m_d_right tried
NodeDistances == {Frac(1, 4), FOne}

\* the column ids of a block's first row, run through the same traceback
Tracker(store, a, b) ==
    [i \in DOMAIN store |->
        IF i = a[1] \/ i = b[1]
        THEN [store[i] EXCEPT !.seq = [k \in 1 .. Len(store[i].seq) |-> -k]]
        ELSE store[i]]

\* where the columns of the two first rows end up: the traceback of the call
\* applied to the column ids
ColumnMaps(store, a, b, tb, env) ==
    LET held == [c \in DOMAIN tb |-> IF tb[c] = Unassigned THEN env.junk ELSE tb[c]]
        tr == Traceback(Tracker(store, a, b), a, b, held,
                        Len(store[a[1]].seq) - 1, Len(store[b[1]].seq) - 1)
    IN  <<tr.store[a[1]].seq, tr.store[b[1]].seq>>

\* the entries of the three-entry inputs: two short ones and a third that
\* joins their merged block
ShortPool == {e \in EntryPool : Len(e.seq) < MaxLen}
ThirdPool == {Entry(<<resI>>, <<>>), Entry(Canonical(2), <<1, 2>>)}

AlignInit ==
    /\ phase = "align"
    /\ data \in {<<e1, e2>> : e1, e2 \in EntryPool}
                    \cup {<<e1, e2, e3>> : e1, e2 \in ShortPool, e3 \in ThirdPool}
    /\ mat \in {MkTable(2, 4, 4, -1, -1, -1)}
    /\ dist = <<>>
    /\ blocks = {<<i>> : i \in DOMAIN data}
    /\ last = NoCall
    /\ NoTree /\ NoQueue /\ NoDriver /\ NoHssp

\* one call align(node, a, b, c, mat, gop, gep, magic, false) with
\* node->m_d_left + node->m_d_right = dsum, in any build; the phase is done
\* when the call returns
AlignCall(a, b, dsum, done) ==
    \E tb \in {AlignMatrix(data, a, b, dsum, DefaultGop, DefaultGep,
                           DefaultMagic, FALSE)} :
    \E env \in Builds :
    \E r \in {AlignBuild(data, a, b, tb, FALSE, env)},
       cols \in {ColumnMaps(data, a, b, tb, env)} :
         /\ last' = [a |-> a, b |-> b, before |-> data,
                     returned |-> r.returned,
                     colA |-> cols[1], colB |-> cols[2], tb |-> tb]
         /\ IF r.returned
            THEN /\ data' = r.store
                 /\ blocks' = (blocks \ {a, b}) \cup {r.c}
                 /\ phase' = done
            ELSE /\ phase' = "aborted"
                 /\ UNCHANGED <<data, blocks>>

\* align as createAlignment calls it for a node whose children hold a and b
AlignBlocks(a, b) ==
    /\ phase = "align"
    /\ a \in blocks /\ b \in blocks /\ a # b
    /\ \E dsum \in NodeDistances : AlignCall(a, b, dsum, "align")
    /\ UNCHANGED <<mat, dist>>
    /\ UNCHANGED <<hsspVars, treeVars, queueVars, driverVars>>

AlignNext == \E a, b \in blocks : AlignBlocks(a, b)

SpecAlign == AlignInit /\ [][AlignNext]_vars

----------------------------------------------------------------------------
(* Specification of main for two sequences: the distance of the pair, the   *)
(* root joined_node with both branches dist / 2, then the alignment.        *)

PairInit ==
    /\ phase = "pair"
    /\ data \in {<<e1, e2>> : e1, e2 \in EntryPool}
    /\ mat \in ScoreTables
    /\ dist = [p \in {<<1, 2>>} |-> NoResult]
    /\ blocks = {<<i>> : i \in DOMAIN data}
    /\ last = NoCall
    /\ NoTree /\ NoQueue /\ NoDriver /\ NoHssp

\* dist = calculateDistance(data[0], data[1]); root = new joined_node(leaf,
\* leaf, dist / 2, dist / 2): each leaf's weight grows by its branch length
PairJoin ==
    /\ phase = "pair"
    /\ \E r \in {calculateDistance(data[1], data[2], mat)} :
         /\ dist' = [dist EXCEPT ![<<1, 2>>] = r]
         /\ data' = [i \in DOMAIN data |->
                        [data[i] EXCEPT !.weight =
                            FAdd(@, FDiv(Frac(r.len - r.highId, r.len), FInt(2)))]]
    /\ phase' = "joined"
    /\ UNCHANGED <<mat, blocks, last>>
    /\ UNCHANGED <<hsspVars, treeVars, queueVars, driverVars>>

\* createAlignment(root, alignment, ...): both children are leaves
PairAlign ==
    /\ phase = "joined"
    /\ \E r \in {dist[<<1, 2>>]} :
         AlignCall(<<1>>, <<2>>, Frac(r.len - r.highId, r.len), "aligned")
    /\ UNCHANGED <<mat, dist>>
    /\ UNCHANGED <<hsspVars, treeVars, queueVars, driverVars>>

PairNext == PairJoin \/ PairAlign

SpecPair == PairInit /\ [][PairNext]_vars

----------------------------------------------------------------------------
(* Guide tree: joined_node and joinNeighbours.  A node is a record; leaf    *)
(* nodes refer to an entry, interior nodes to their two children by id.     *)

\* most sequences a guide tree is built for
MaxLeaves == 4

leaf_node(e) ==
    [leaf |-> TRUE, entry |-> e, left |-> 0, right |-> 0,
     d_left |-> FZero, d_right |-> FZero, leaf_count |-> 1]

\* the entries of the leaves below node id, from left to right
RECURSIVE LeavesOf(_, _)
LeavesOf(ns, id) ==
    IF ns[id].leaf THEN <<ns[id].entry>>
    ELSE LeavesOf(ns, ns[id].left) \o LeavesOf(ns, ns[id].right)

Range(s) == {s[i] : i \in DOMAIN s}

\* base_node::add_weight: a leaf adds w to the weight of its entry, an
\* interior node passes w on to both children
add_weight(ns, store, id, w) ==
    [i \in DOMAIN store |->
        IF i \in Range(LeavesOf(ns, id))
        THEN [store[i] EXCEPT !.weight = FAdd(@, w)] ELSE store[i]]

\* the whole branch length handed to every leaf below the branch
LeafShareWhole(branch, count) == branch

\* d_left / m_left->leaf_count(): what one leaf below a branch receives
LeafShare(branch, count) == FDiv(branch, FInt(count))

\* joined_node::joined_node: the new node, and the entries after the two
\* add_weight calls
joined_node(ns, store, left, right, d_left, d_right) ==
    LET node == [leaf |-> FALSE, entry |-> 0, left |-> left, right |-> right,
                 d_left |-> d_left, d_right |-> d_right,
                 leaf_count |-> ns[left].leaf_count + ns[right].leaf_count]
        s1 == add_weight(ns, store, left,
                         LeafShare(d_left, ns[left].leaf_count))
        s2 == add_weight(ns, s1, right,
                         LeafShare(d_right, ns[right].leaf_count))
    IN  [node |-> node, store |-> s2]

\* symmetric_matrix::operator()(i, j), i # j
Dist(m, i, j) == IF i > j THEN m[<<i, j>>] ELSE m[<<j, i>>]

LowerPairs(r) == {p \in (0 .. r - 1) \X (0 .. r - 1) : p[1] > p[2]}

\* the place of (i, j) in "for i = 1 .. r-1, for j = 0 .. i-1"
PairOrder(p) == (p[1] * (p[1] - 1)) \div 2 + p[2]

\* sum[i] after the first pair of loops
RowSum(m, r, i) ==
    LET RECURSIVE add(_)
        add(j) == IF j >= r THEN FZero
                  ELSE IF j = i THEN add(j + 1)
                  ELSE FAdd(Dist(m, i, j), add(j + 1))
    IN  add(0)

\* v = d(i, j) - (sum[i] + sum[j]) / (r - 2)
Q(m, r, p) ==
    FSub(Dist(m, p[1], p[2]),
         FDiv(FAdd(RowSum(m, r, p[1]), RowSum(m, r, p[2])), FInt(r - 2)))

\* <<min_i, min_j>>: "if (m > v)" keeps the first minimum met
MinPair(m, r) ==
    CHOOSE p \in LowerPairs(r) :
        \A q \in LowerPairs(r) :
            \/ FLt(Q(m, r, p), Q(m, r, q))
            \/ (Q(m, r, p) = Q(m, r, q) /\ PairOrder(p) <= PairOrder(q))

\* <<d_i, d_j>> without the exchange
BranchLengthsAsComputed(m, r, ns, t, min_i, min_j) ==
    LET dij == Dist(m, min_i, min_j)
        d_i == FAdd(FDiv(dij, FInt(2)),
                    FDiv(FAbs(FSub(RowSum(m, r, min_i), RowSum(m, r, min_j))),
                         FInt(2 * (r - 2))))
    IN  <<d_i, FSub(dij, d_i)>>

\* <<d_i, d_j>>, exchanged when the longer branch is on the larger subtree
BranchLengths(m, r, ns, t, min_i, min_j) ==
    LET dij == Dist(m, min_i, min_j)
        d_i == FAdd(FDiv(dij, FInt(2)),
                    FDiv(FAbs(FSub(RowSum(m, r, min_i), RowSum(m, r, min_j))),
                         FInt(2 * (r - 2))))
        d_j == FSub(dij, d_i)
    IN  IF FLt(d_j, d_i)
           /\ ns[At(t, min_i)].leaf_count > ns[At(t, min_j)].leaf_count
        THEN <<d_j, d_i>> ELSE <<d_i, d_j>>

RemoveAt(s, i) == SubSeq(s, 1, i) \o SubSeq(s, i + 2, Len(s))

\* the second erase repeats the first
EraseTwice(t, min_i, min_j) == RemoveAt(RemoveAt(t, min_j), min_j)

\* tree.erase(tree.begin() + min_i); tree.erase(tree.begin() + min_j)
EraseTwo(t, min_i, min_j) == RemoveAt(RemoveAt(t, min_i), min_j)

\* the indices x of "if (x == min_i or x == min_j) continue", in order
Others(r, min_i, min_j) ==
    LET RECURSIVE from(_)
        from(x) == IF x >= r THEN <<>>
                   ELSE IF x = min_i \/ x = min_j THEN from(x + 1)
                   ELSE <<x>> \o from(x + 1)
    IN  from(0)

\* dn: the distances of the other nodes to the joined node, in their order
NewDistances(m, r, min_i, min_j, d_i, d_j) ==
    LET others == Others(r, min_i, min_j)
    IN  [k \in 1 .. r - 2 |->
            FDiv(FAdd(FAbs(FSub(Dist(m, others[k], min_i), d_i)),
                      FAbs(FSub(Dist(m, others[k], min_j), d_j))), FInt(2))]

\* d.erase_2(min_i, min_j): rows and columns min_i and min_j are deleted,
\* the others keep their order, and one row is left to take the joined node
erase_2(m, r, min_i, min_j) ==
    LET others == Others(r, min_i, min_j)
    IN  [p \in LowerPairs(r - 1) |->
            IF p[1] < r - 2
            THEN Dist(m, others[p[1] + 1], others[p[2] + 1])
            ELSE FZero]

\* the distances a guide tree is built from
TreeDistances == {FZero, Frac(1, 2), FOne}

TreeInit ==
    /\ phase = "tree"
    /\ \E n \in 3 .. MaxLeaves :
          /\ data = [i \in 1 .. n |-> Entry(<<resS>>, <<>>)]
          /\ nodes = [i \in 1 .. n |-> leaf_node(i)]
          /\ tree = [i \in 1 .. n |-> i]
          /\ dmat \in {[r |-> n, m |-> f] : f \in [LowerPairs(n) -> TreeDistances]}
    /\ NoKernel /\ NoQueue /\ NoDriver /\ NoHssp

\* one turn of "while (r > 2)"
JoinStep ==
    /\ phase = "tree"
    /\ dmat.r > 2
    /\ \E p \in {MinPair(dmat.m, dmat.r)} :
       \E b \in {BranchLengths(dmat.m, dmat.r, nodes, tree, p[1], p[2])} :
       \E jn \in {joined_node(nodes, data, At(tree, p[1]), At(tree, p[2]),
                              b[1], b[2])} :
          /\ nodes' = Append(nodes, jn.node)
          /\ data' = jn.store
          /\ tree' = Append(EraseTwo(tree, p[1], p[2]), Len(nodes) + 1)
          /\ dmat' =
                LET dn == NewDistances(dmat.m, dmat.r, p[1], p[2], b[1], b[2])
                    e  == erase_2(dmat.m, dmat.r, p[1], p[2])
                    r  == dmat.r - 1
                IN  [r |-> r,
                     m |-> [q \in DOMAIN e |->
                              IF q[1] = r - 1 THEN dn[q[2] + 1] ELSE e[q]]]
    /\ UNCHANGED <<hsspVars, phase, mat, dist, blocks, last, queueVars, driverVars>>

\* the root: joined_node(tree[0], tree[1], d(0, 1) / 2, d(0, 1) / 2)
JoinRoot ==
    /\ phase = "tree"
    /\ dmat.r = 2
    /\ \E half \in {FDiv(Dist(dmat.m, 0, 1), FInt(2))} :
       \E jn \in {joined_node(nodes, data, At(tree, 0), At(tree, 1), half, half)} :
          /\ nodes' = Append(nodes, jn.node)
          /\ data' = jn.store
          /\ tree' = <<Len(nodes) + 1>>
    /\ phase' = "rooted"
    /\ UNCHANGED <<hsspVars, dmat, mat, dist, blocks, last, queueVars, driverVars>>

TreeNext == JoinStep \/ JoinRoot

SpecTree == TreeInit /\ [][TreeNext]_vars

----------------------------------------------------------------------------
(* Distance matrix: calculateDistanceMatrix, its worker threads and the     *)
(* queue between them.                                                      *)

\* most entries of a distance matrix, and most worker threads
MaxEntries == 3
MaxWorkers == 2

\* make_tuple(numeric_limits<uint32>::max(), 0); -1 stands for the maximum,
\* which is no index of an entry
kSentinel == <<-1, 0>>

\* buffer::put and buffer::get: a first-in first-out queue under a lock;
\* get waits while the queue is empty
buffer_put(q, t) == Append(q, t)
buffer_front(q) == Head(q)
buffer_pop(q) == Tail(q)

\* the cell of the symmetric matrix that d(a, b) names
Cell(a, b) == <<Max(a, b), Min(a, b)>>

\* the inner loop starts at the first entry
FirstBZero(a) == 0

\* "for (uint32 b = a + 1; ...": where the inner loop starts
FirstB(a) == a + 1

\* the loop variables after the put of (a, b): ++b, and at the end of the
\* inner loop ++a and b = a + 1
NextPair(n, a, b) ==
    IF b + 1 < n THEN <<a, b + 1>> ELSE <<a + 1, FirstB(a + 1)>>

\* the sequences whose distances are computed
QueueEntries ==
    <<Entry(<<resS, resI>>, <<>>), Entry(<<resS>>, <<>>),
      Entry(<<resI, resS>>, <<>>), Entry(<<resS, resS, resI>>, <<>>)>>

QueueInit ==
    /\ phase = "matrix"
    /\ \E n \in 2 .. MaxEntries : data = SubSeq(QueueEntries, 1, n)
    /\ mat = MkTable(2, 4, 4, -1, -1, -1)
    /\ dist = [c \in (0 .. Len(data) - 1) \X (0 .. Len(data) - 1) |-> NoResult]
    /\ blocks = {} /\ last = NoCall
    /\ queue = <<>>
    /\ prod = [pc |-> "put", a |-> 0, b |-> FirstB(0)]
    /\ \E nw \in 1 .. MaxWorkers :
          worker = [w \in 1 .. nw |-> [pc |-> "get", a |-> 0, b |-> 0]]
    /\ writes = [c \in DOMAIN dist |-> [put |-> 0, taken |-> <<>>, written |-> 0]]
    /\ NoTree /\ NoDriver /\ NoHssp

\* queue.put(make_tuple(a, b)) in the loops of calculateDistanceMatrix
ProducerPut ==
    /\ prod.pc = "put"
    /\ prod.a < Len(data) - 1
    /\ queue' = buffer_put(queue, <<prod.a, prod.b>>)
    /\ writes' = [writes EXCEPT ![Cell(prod.a, prod.b)].put = @ + 1]
    /\ \E nx \in {NextPair(Len(data), prod.a, prod.b)} :
          prod' = [prod EXCEPT !.a = nx[1], !.b = nx[2]]
    /\ UNCHANGED <<hsspVars, kernelVars, treeVars, driverVars, worker>>

\* queue.put(kSentinel) after the loops
ProducerSentinel ==
    /\ prod.pc = "put"
    /\ ~(prod.a < Len(data) - 1)
    /\ queue' = buffer_put(queue, kSentinel)
    /\ prod' = [prod EXCEPT !.pc = "join"]
    /\ UNCHANGED <<hsspVars, kernelVars, treeVars, driverVars, worker, writes>>

\* t.join_all()
ProducerJoin ==
    /\ prod.pc = "join"
    /\ \A w \in DOMAIN worker : worker[w].pc = "exited"
    /\ prod' = [prod EXCEPT !.pc = "done"]
    /\ UNCHANGED <<hsspVars, kernelVars, treeVars, driverVars, queue, worker, writes>>

\* tie(a, b) = queue.get(), and the test for the sentinel
WorkerGet(w) ==
    /\ worker[w].pc = "get"
    /\ queue # <<>>
    /\ \E t \in {buffer_front(queue)} :
          /\ queue' = buffer_pop(queue)
          /\ IF t[1] = kSentinel[1]
             THEN /\ worker' = [worker EXCEPT ![w].pc = "sentinel"]
                  /\ UNCHANGED writes
             ELSE /\ worker' = [worker EXCEPT ![w] =
                                   [pc |-> "compute", a |-> t[1], b |-> t[2]]]
                  /\ writes' = [writes EXCEPT ![Cell(t[1], t[2])].taken =
                                   Append(@, w)]
    /\ UNCHANGED <<hsspVars, kernelVars, treeVars, driverVars, prod>>

\* d(a, b) = calculateDistance(data[a], data[b])
WorkerWrite(w) ==
    /\ worker[w].pc = "compute"
    /\ \E c \in {Cell(worker[w].a, worker[w].b)} :
          /\ dist' = [dist EXCEPT ![c] =
                        calculateDistance(At(data, worker[w].a),
                                          At(data, worker[w].b), mat)]
          /\ writes' = [writes EXCEPT ![c].written = @ + 1]
    /\ worker' = [worker EXCEPT ![w].pc = "get"]
    /\ UNCHANGED <<hsspVars, phase, data, mat, blocks, last, treeVars, driverVars,
                   queue, prod>>

\* a worker that met the sentinel and leaves without putting it back
WorkerSentinelKept(w) ==
    /\ worker[w].pc = "sentinel"
    /\ worker' = [worker EXCEPT ![w].pc = "exited"]
    /\ UNCHANGED <<hsspVars, kernelVars, treeVars, driverVars, queue, prod, writes>>

\* queue.put(kSentinel) of a worker that met the sentinel
WorkerSentinel(w) ==
    /\ worker[w].pc = "sentinel"
    /\ queue' = buffer_put(queue, kSentinel)
    /\ worker' = [worker EXCEPT ![w].pc = "exited"]
    /\ UNCHANGED <<hsspVars, kernelVars, treeVars, driverVars, prod, writes>>

QueueNext ==
    \/ ProducerPut
    \/ ProducerSentinel
    \/ ProducerJoin
    \/ \E w \in DOMAIN worker : WorkerGet(w)
    \/ \E w \in DOMAIN worker : WorkerWrite(w)
    \/ \E w \in DOMAIN worker : WorkerSentinel(w)

SpecQueue == QueueInit /\ [][QueueNext]_vars

----------------------------------------------------------------------------
(* Progressive driver: createAlignment over a guide tree.  Each call is a   *)
(* frame with its vectors a and b; the alignment vector a call fills is the *)
(* a or b of its caller.  With MULTI_THREADED the calls for interior        *)
(* children run in threads of their own.                                    *)

\* an interior node with branches of 1/4
Joined(l, r, count) ==
    [leaf |-> FALSE, entry |-> 0, left |-> l, right |-> r,
     d_left |-> Frac(1, 4), d_right |-> Frac(1, 4), leaf_count |-> count]

Leaves(n) == [i \in 1 .. n |-> leaf_node(i)]

\* the guide trees the driver is run on: every shape over three leaves and
\* the balanced and the two one-sided shapes over four
GuideTrees ==
    {Leaves(3) \o <<Joined(1, 2, 2), Joined(4, 3, 3)>>,
     Leaves(3) \o <<Joined(2, 3, 2), Joined(1, 4, 3)>>,
     Leaves(4) \o <<Joined(1, 2, 2), Joined(3, 4, 2), Joined(5, 6, 4)>>,
     Leaves(4) \o <<Joined(1, 2, 2), Joined(5, 3, 3), Joined(6, 4, 4)>>,
     Leaves(4) \o <<Joined(3, 4, 2), Joined(2, 5, 3), Joined(1, 6, 4)>>}

\* the leaf hands out the first entry of the data
LeafEntryFirst(id) == 1

\* &static_cast<leaf_node*>(node->left())->m_entry
LeafEntry(id) == nodes[id].entry

IsLeaf(id) == nodes[id].leaf

InteriorChildren(n) == {c \in {nodes[n].left, nodes[n].right} : ~IsLeaf(c)}

\* the caller goes on without waiting for its threads
JoinSkipped(n) == TRUE

\* t.join_all(): every thread created for a child has ended
ThreadsJoined(n) == \A c \in InteriorChildren(n) : pc[c] = "done"

\* without threads: the plain call for child c, if there was one, has
\* returned
CallReturned(c) == IF IsLeaf(c) THEN TRUE ELSE pc[c] = "done"

\* both vectors taken from the left child
BlockOfLeft(n, side) ==
    IF IsLeaf(nodes[n].left) THEN out[n].a ELSE out[nodes[n].left].c

\* the vector a (side "left") or b (side "right") of the call for node n:
\* its own vector for a leaf child, the alignment of the child's call else
Block(n, side) ==
    LET c == IF side = "left" THEN nodes[n].left ELSE nodes[n].right
    IN  IF IsLeaf(c)
        THEN (IF side = "left" THEN out[n].a ELSE out[n].b)
        ELSE out[c].c

DriverInit ==
    /\ phase = "driver"
    /\ nodes \in GuideTrees
    /\ tree = <<Len(nodes)>>
    /\ data = SubSeq(QueueEntries, 1, Cardinality({i \in DOMAIN nodes : nodes[i].leaf}))
    /\ mat = <<>> /\ dist = <<>> /\ last = NoCall
    /\ blocks = {<<i>> : i \in DOMAIN data}
    /\ dmat = <<>>
    /\ mt \in BOOLEAN
    /\ pc = [n \in {i \in DOMAIN nodes : ~nodes[i].leaf} |->
                IF n = Len(nodes) THEN "called" ELSE "idle"]
    /\ out = [n \in DOMAIN pc |-> [a |-> <<>>, b |-> <<>>, c |-> <<>>]]
    /\ NoQueue /\ NoHssp

\* the left child: a.push_back(&entry) for a leaf, else the call for the
\* child (a new thread, or a plain call) is started
DriverLeft(n) ==
    /\ phase = "driver"
    /\ pc[n] = "called"
    /\ LET c == nodes[n].left
       IN  IF IsLeaf(c)
           THEN /\ out' = [out EXCEPT ![n].a = Append(@, LeafEntry(c))]
                /\ pc' = [pc EXCEPT ![n] = "left"]
           ELSE /\ pc' = [pc EXCEPT ![n] = "left", ![c] = "called"]
                /\ UNCHANGED out
    /\ UNCHANGED <<hsspVars, kernelVars, treeVars, queueVars, mt>>

\* the right child; without threads the call for the left child has
\* returned by now
DriverRight(n) ==
    /\ phase = "driver"
    /\ pc[n] = "left"
    /\ IF mt THEN TRUE ELSE CallReturned(nodes[n].left)
    /\ LET c == nodes[n].right
       IN  IF IsLeaf(c)
           THEN /\ out' = [out EXCEPT ![n].b = Append(@, LeafEntry(c))]
                /\ pc' = [pc EXCEPT ![n] = "right"]
           ELSE /\ pc' = [pc EXCEPT ![n] = "right", ![c] = "called"]
                /\ UNCHANGED out
    /\ UNCHANGED <<hsspVars, kernelVars, treeVars, queueVars, mt>>

\* align(node, a, b, alignment, ...) is entered: after t.join_all() with
\* threads, after the return of the call for the right child without
DriverAlignBegin(n) ==
    /\ phase = "driver"
    /\ pc[n] = "right"
    /\ IF mt THEN ThreadsJoined(n) ELSE CallReturned(nodes[n].right)
    /\ pc' = [pc EXCEPT ![n] = "aligning"]
    /\ out' = [out EXCEPT ![n].a = Block(n, "left"), ![n].b = Block(n, "right")]
    /\ UNCHANGED <<hsspVars, kernelVars, treeVars, queueVars, mt>>

\* align returns: the entries of a and b are padded and alignment is
\* filled; a.front() of an empty vector is undefined
DriverAlignEnd(n) ==
    /\ phase = "driver"
    /\ pc[n] = "aligning"
    /\ IF out[n].a = <<>> \/ out[n].b = <<>>
       THEN /\ phase' = "crashed"
            /\ UNCHANGED <<data, blocks, last, pc, out>>
       ELSE /\ AlignCall(out[n].a, out[n].b,
                         FAdd(nodes[n].d_left, nodes[n].d_right), "driver")
            /\ pc' = [pc EXCEPT ![n] = "done"]
            /\ out' = [out EXCEPT ![n].c = out[n].a \o out[n].b]
    /\ UNCHANGED <<hsspVars, mat, dist, treeVars, queueVars, mt>>

DriverNext ==
    \E n \in DOMAIN pc :
        \/ DriverLeft(n)
        \/ DriverRight(n)
        \/ DriverAlignBegin(n)
        \/ DriverAlignEnd(n)

SpecDriver == DriverInit /\ [][DriverNext]_vars

----------------------------------------------------------------------------
(* Properties of the alignment kernel                                       *)

\* the first rows' positions vectors the last align call started from
LastPa == last.before[last.a[1]].positions
LastPb == last.before[last.b[1]].positions

\* the non-zero values of a positions vector increase from left to right
Increasing(p) ==
    \A i, j \in DOMAIN p : (i < j /\ p[i] # 0 /\ p[j] # 0) => p[i] < p[j]

\* the column of the merged block that holds column k of a first row
ColOf(cols, k) == CHOOSE i \in DOMAIN cols : cols[i] = -k

\* the pairs (x, y) of columns that carry the same non-zero position
Anchors(pa, pb) ==
    {xy \in (DOMAIN pa) \X (DOMAIN pb) : pa[xy[1]] = pb[xy[2]] /\ pa[xy[1]] # 0}

HasGap(e) == \E i \in DOMAIN e.seq : e.seq[i] = kSignalGapCode

\* C1: after align returns, every entry of the merged block c has the same
\* sequence length, and every entry with a non-empty positions vector has
\* as many positions as residues
AlignedLengths ==
    last.returned =>
        LET c == last.a \o last.b
        IN  \A i, j \in DOMAIN c :
                /\ Len(data[c[i]].seq) = Len(data[c[j]].seq)
                /\ data[c[i]].positions # <<>> =>
                       Len(data[c[i]].positions) = Len(data[c[i]].seq)

\* a returned call that merged a two-row block with a third entry, padded a
\* row that carries positions, and lengthened the block
AlignedLengthsWitness ==
    /\ last.returned
    /\ Len(last.a) + Len(last.b) = 3
    /\ \E i \in DOMAIN data :
          /\ data[i].positions # <<>>
          /\ HasGap(data[i])
          /\ Len(data[i].seq) > Len(last.before[i].seq)

----------------------------------------------------------------------------
(* Properties of the distance kernel                                        *)

Computed(p) == p \in DOMAIN dist /\ dist[p] # NoResult

\* C2: calculateDistance returns a value in [0, 1]: the identity count is
\* never negative and never exceeds max(|a|, |b|)
DistanceInUnitRange ==
    \A p \in DistPairs :
        Computed(p) => 0 <= dist[p].highId /\ dist[p].highId <= dist[p].len

\* a distance of 0 reached across an anchor followed by a free window
DistanceInUnitRangeWitness ==
    /\ Computed(<<1, 2>>)
    /\ dist[<<1, 2>>].highId = dist[<<1, 2>>].len
    /\ dist[<<1, 2>>].len = MaxLen
    /\ data[1].positions # <<>> /\ data[2].positions # <<>>
    /\ data[1].positions[1] # 0
    /\ data[1].positions[1] = data[2].positions[1]
    /\ data[1].positions[2] = 0 /\ data[2].positions[2] = 0

\* C3 as stated: calculateDistance(a, b) = calculateDistance(b, a)
DistanceSymmetric ==
    (Computed(<<1, 2>>) /\ Computed(<<2, 1>>)) =>
        DistResult(dist[<<1, 2>>]) = DistResult(dist[<<2, 1>>])

\* both orders of a pair computed, the two results different
DistanceAsymmetricWitness ==
    /\ Computed(<<1, 2>>) /\ Computed(<<2, 1>>)
    /\ data[1].positions = <<>> /\ data[2].positions = <<>>
    /\ dist[<<1, 2>>].highId # dist[<<2, 1>>].highId

----------------------------------------------------------------------------
(* Properties of main for two sequences                                     *)

SameResidues == last.before[1].seq = last.before[2].seq

\* distance 0, and no gap in either row
RoundTrip ==
    /\ dist[<<1, 2>>].highId = dist[<<1, 2>>].len
    /\ data[1].seq = last.before[1].seq
    /\ data[2].seq = last.before[2].seq

----------------------------------------------------------------------------
(* Properties of the guide tree                                             *)

Interior == {id \in DOMAIN nodes : ~nodes[id].leaf}

\* the interior nodes that have id as a child, counted per side
Parents(id) ==
    {<<n, "left">> : n \in {k \in Interior : nodes[k].left = id}}
        \cup {<<n, "right">> : n \in {k \in Interior : nodes[k].right = id}}

\* C6: joinNeighbours ends with one root in the tree vector; every interior
\* node has two children, every node but the root is the child of exactly
\* one node, the leaves below the root are the input leaves, each once, and
\* r - 1 interior nodes were created
BinaryTreeOverLeaves ==
    phase = "rooted" =>
        LET n == Len(data)
            root == tree[1]
            below == LeavesOf(nodes, root)
        IN  /\ Len(tree) = 1
            /\ ~nodes[root].leaf
            /\ Cardinality(Interior) = n - 1
            /\ \A k \in Interior :
                  /\ nodes[k].left \in DOMAIN nodes
                  /\ nodes[k].right \in DOMAIN nodes
                  /\ nodes[k].left # nodes[k].right
            /\ \A id \in DOMAIN nodes :
                  Cardinality(Parents(id)) = (IF id = root THEN 0 ELSE 1)
            /\ Len(below) = n
            /\ Range(below) = 1 .. n
            /\ nodes[root].leaf_count = n

\* a rooted tree over the most leaves, built from unequal distances
BinaryTreeWitness ==
    /\ phase = "rooted"
    /\ Len(data) = MaxLeaves
    /\ \E k \in Interior : nodes[k].d_left # nodes[k].d_right

AddedWeight == FSum([i \in DOMAIN data |-> FSub(data[i].weight, FOne)])

BranchTotal ==
    FSum([k \in DOMAIN nodes |-> FAdd(nodes[k].d_left, nodes[k].d_right)])

\* C7: the weight added to the leaves (the sum over the leaves of weight
\* minus the initial 1) is the sum of d_left + d_right over the interior
\* nodes, after every join and at the end
WeightIsBranchLength ==
    phase \in {"tree", "rooted"} => AddedWeight = BranchTotal

\* a finished tree in which a branch of non-zero length leads to a subtree
\* of more than one leaf
WeightWitness ==
    /\ phase = "rooted"
    /\ \E k \in Interior :
          /\ ~nodes[nodes[k].left].leaf
          /\ nodes[k].d_left # FZero
    /\ AddedWeight # FZero

----------------------------------------------------------------------------
(* Properties of the distance matrix                                        *)

\* the pairs (a, b) with a < b, as cells of the matrix
PairCells == {c \in DOMAIN writes : c[1] > c[2]}

\* the workers that hold the tuple of cell c and have yet to write it
Holders(c) ==
    {w \in DOMAIN worker :
        worker[w].pc = "compute" /\ Cell(worker[w].a, worker[w].b) = c}

\* C9: every pair (a, b) with a < b is put on the queue once, taken by one
\* worker and written once, no other cell is ever put, and no two workers
\* hold the same cell at a time
EachPairOnce ==
    phase = "matrix" =>
        /\ \A c \in DOMAIN writes :
              /\ writes[c].put <= (IF c \in PairCells THEN 1 ELSE 0)
              /\ Len(writes[c].taken) <= writes[c].put
              /\ writes[c].written <= Len(writes[c].taken)
              /\ Cardinality(Holders(c)) <= 1
        /\ prod.pc = "done" =>
              \A c \in PairCells :
                  /\ writes[c].put = 1
                  /\ Len(writes[c].taken) = 1
                  /\ writes[c].written = 1
                  /\ dist[c] # NoResult

\* the matrix of the most entries finished by two workers that both wrote
EachPairOnceWitness ==
    /\ phase = "matrix"
    /\ prod.pc = "done"
    /\ Len(data) = MaxEntries
    /\ \E c1, c2 \in PairCells :
          /\ writes[c1].taken # <<>> /\ writes[c2].taken # <<>>
          /\ writes[c1].taken # writes[c2].taken

----------------------------------------------------------------------------
(* Properties of the progressive driver                                     *)

\* the entries the running or finished align of node n reads and pads
Touched(n) ==
    IF pc[n] \in {"aligning", "done"}
    THEN Range(out[n].a) \cup Range(out[n].b) ELSE {}

\* the interior nodes of the subtree of node id
RECURSIVE Subtree(_)
Subtree(id) ==
    IF IsLeaf(id) THEN {}
    ELSE {id} \cup Subtree(nodes[id].left) \cup Subtree(nodes[id].right)

TouchedBelow(id) == UNION {Touched(k) : k \in Subtree(id)}

\* C8: with and without threads, align for an interior node runs only
\* when the calls for its interior children are complete and have filled
\* their alignment; no align of a child is running then
ParentAfterChildren ==
    phase = "driver" =>
        \A n \in DOMAIN pc :
            pc[n] \in {"aligning", "done"} =>
                \A c \in InteriorChildren(n) :
                    pc[c] = "done" /\ out[c].c # <<>>

\* with threads: the root's align running over the alignments of two
\* interior children
ParentAfterChildrenWitness ==
    /\ phase = "driver" /\ mt
    /\ \E n \in DOMAIN pc :
          /\ pc[n] = "aligning"
          /\ Cardinality(InteriorChildren(n)) = 2
          /\ Len(out[n].a) = 2 /\ Len(out[n].b) = 2

\* C10: with threads, two aligns that run at the same time work on
\* disjoint sets of entries, and until a node has joined its threads the
\* entries touched below its left child and below its right child are
\* disjoint
DisjointAligns ==
    (phase = "driver" /\ mt) =>
        /\ \A n, m \in DOMAIN pc :
              (n # m /\ pc[n] = "aligning" /\ pc[m] = "aligning") =>
                  Touched(n) \cap Touched(m) = {}
        /\ \A n \in DOMAIN pc :
              pc[n] \in {"left", "right"} =>
                  TouchedBelow(nodes[n].left) \cap TouchedBelow(nodes[n].right) = {}

\* two aligns in progress at once, each on entries of its own
DisjointAlignsWitness ==
    /\ phase = "driver" /\ mt
    /\ \E n, m \in DOMAIN pc :
          /\ n # m
          /\ pc[n] = "aligning" /\ pc[m] = "aligning"
          /\ Touched(n) # {} /\ Touched(m) # {}

----------------------------------------------------------------------------
(* hssp-convert-3to1: the rows of a multiple sequence alignment (seq and    *)
(* seq_impl).  A character is a string of length one.  Rows stay far below  *)
(* kBlockSize, so append never reallocates after the first block.           *)

\* the longest row
MaxCols == 3

\* the characters that stand for a gap
GapChars == {"-", ".", " "}

\* kResidueIX: the residue index of a letter in either case, -2 for a gap
\* character, -1 for everything else
kResidueIX(c) ==
    CASE c \in {"A", "a"} -> 0
      [] c \in {"C", "c"} -> 1
      [] c \in {"D", "d"} -> 2
      [] c \in {"E", "e"} -> 3
      [] c \in GapChars -> -2
      [] OTHER -> -1

\* is_gap
is_gap(aa) == kResidueIX(aa) = -2

tolower(c) ==
    CASE c = "A" -> "a" [] c = "C" -> "c" [] c = "D" -> "d" [] c = "E" -> "e"
      [] OTHER -> c

\* the conversion of an int8 to uint8
uint8(v) == v % 256

\* the residue indices kD has an entry for
TableIndex == 0 .. 3

\* kD: identical residues score 2, different ones -1
kD(ri, rj) == IF ri = rj THEN 2 ELSE -1

\* What the build leaves to chance in update: the first non-gap byte found
\* in front of the row when the scan for the flank of an insertion starts at
\* the first column, and the outcome of kD for an index outside the table (a
\* value that is or is not >= 0, or a fault).
UpdateBuilds ==
    [before : {"C", "?"}, kd : {"nonneg", "neg", "fault"}]

\* numeric_limits<uint32>::max(), the value m_begin holds until a column
\* sets it (no column index takes it)
NoBegin == -1

\* seq_impl::seq_impl: a row without characters
seq_impl ==
    [id |-> 0, seq |-> <<>>, ifir |-> 0, ilas |-> 0, jfir |-> 0, jlas |-> 0,
     length |-> 0, identical |-> 0, similar |-> 0, score |-> <<0, 1>>,
     begin |-> 0, end |-> 0, gaps |-> 0, gapn |-> 0, insertions |-> <<>>,
     pruned |-> FALSE]

\* seq::append
append(r, s) ==
    [r EXCEPT !.seq = @ \o s, !.end = Len(r.seq) + Len(s)]

\* seq_impl::cut, for pos + n <= m_size
cut(r, pos, n) ==
    LET e1 == IF r.end > pos THEN r.end - pos ELSE 0
    IN  [r EXCEPT !.seq = SubSeq(@, pos + 1, pos + n),
                  !.begin = IF @ > pos THEN @ - pos ELSE 0,
                  !.end = IF e1 > n THEN n ELSE e1]

\* "iterator gsi = si - 1; while (gsi != begin() and is_gap(*gsi)) --gsi":
\* the column gsi ends at; when the scan starts in front of the row (g < 0)
\* it never meets begin() and runs on through the bytes before the row
RECURSIVE ScanBack(_, _)
ScanBack(s, g) ==
    IF g > 0 /\ is_gap(At(s, g)) THEN ScanBack(s, g - 1) ELSE g

\* the branch "else if (qgap)": a column of an insertion
UpdateInsert(st, length, env) ==
    LET r  == st.r
        sc == At(r.seq, st.i)
        g  == ScanBack(r.seq, st.i - 1)
        ch == tolower(IF g < 0 THEN env.before ELSE At(r.seq, g))
        ins0 == IF st.qgapf THEN st.ins
                ELSE [ipos |-> st.ipos, jpos |-> st.jpos, seq |-> <<ch>>]
    IN  [st EXCEPT !.r.seq = IF st.qgapf \/ g < 0 THEN @
                             ELSE [@ EXCEPT ![g + 1] = ch],
                   !.ins = [ins0 EXCEPT !.seq = Append(@, sc)],
                   !.length = length,
                   !.gaps = IF st.sgapf \/ st.qgapf THEN @ ELSE @ + 1,
                   !.qgapf = TRUE,
                   !.gapn = @ + 1,
                   !.jpos = @ + 1]

\* the branch "else": a column with a residue in query and subject
UpdateAligned(st, length) ==
    LET r  == st.r
        low == tolower(At(r.seq, st.i))
        ins1 == [st.ins EXCEPT !.seq = Append(@, low)]
        first == r.ifir = 0
    IN  [st EXCEPT
            !.r = [r EXCEPT
                     !.seq = IF st.qgapf THEN [@ EXCEPT ![st.i + 1] = low] ELSE @,
                     !.insertions = IF st.qgapf THEN Append(@, ins1) ELSE @,
                     !.ilas = st.ipos,
                     !.ifir = IF first THEN st.ipos ELSE @,
                     !.gapn = IF first THEN @ ELSE @ + st.gapn,
                     !.gaps = IF first THEN @ ELSE @ + st.gaps,
                     !.length = IF first THEN @ ELSE length],
            !.ins = IF st.qgapf THEN ins1 ELSE @,
            !.length = IF first THEN 1 ELSE length,
            !.sgapf = FALSE, !.qgapf = FALSE,
            !.gaps = 0, !.gapn = 0,
            !.ipos = @ + 1, !.jpos = @ + 1]

\* "if (rq == -1)" for a uint8 rq
IsInvalid(rq) == rq = -1

\* from "if (*qi == *si)" to "m_end = i + 1"
UpdateTail(q, st, env) ==
    LET qc == At(q, st.i)
        sc == At(st.r.seq, st.i)
        rq == uint8(kResidueIX(qc))
        rs == uint8(kResidueIX(sc))
        inTable == rq \in TableIndex /\ rs \in TableIndex
        similar == IF inTable THEN kD(rq, rs) >= 0 ELSE env.kd = "nonneg"
    IN  IF IsInvalid(rq) \/ IsInvalid(rs)
        THEN [st EXCEPT !.thrown = TRUE,
                        !.r.identical = IF qc = sc THEN @ + 1 ELSE @]
        ELSE IF rq >= 0 /\ rs >= 0 /\ ~inTable /\ env.kd = "fault"
        THEN [st EXCEPT !.fault = TRUE, !.oob = TRUE,
                        !.r.identical = IF qc = sc THEN @ + 1 ELSE @]
        ELSE [st EXCEPT !.r.identical = IF qc = sc THEN @ + 1 ELSE @,
                        !.r.similar = IF rq >= 0 /\ rs >= 0 /\ similar
                                      THEN @ + 1 ELSE @,
                        !.r.begin = IF @ = NoBegin THEN st.i ELSE @,
                        !.r.end = st.i + 1,
                        !.oob = @ \/ ~inTable,
                        !.i = @ + 1]

\* the body of "for (; qi != qseq.end(); ++qi, ++si, ++i)"
UpdateColumn(q, st, env) ==
    LET qgap == is_gap(At(q, st.i))
        sgap == is_gap(At(st.r.seq, st.i))
        length == IF st.length > 0 THEN st.length + 1 ELSE st.length
    IN  IF qgap /\ sgap THEN [st EXCEPT !.i = @ + 1]
        ELSE IF sgap
        THEN [st EXCEPT !.length = length,
                        !.gaps = IF st.sgapf \/ st.qgapf THEN @ ELSE @ + 1,
                        !.sgapf = TRUE,
                        !.gapn = @ + 1,
                        !.ipos = @ + 1,
                        !.i = @ + 1]
        ELSE CHOOSE t \in
                {UpdateTail(q, u, env) :
                    u \in {IF qgap THEN UpdateInsert(st, length, env)
                                  ELSE UpdateAligned(st, length)}} : TRUE

RECURSIVE UpdateLoop(_, _, _)
UpdateLoop(q, st, env) ==
    IF st.i >= Len(q) \/ st.thrown \/ st.fault THEN st
    ELSE CHOOSE t \in
            {UpdateLoop(q, u, env) : u \in {UpdateColumn(q, st, env)}} : TRUE

\* the end of update without the loop that clears the row
UpdateFinishNoClear(r) ==
    IF r.begin = NoBegin
    THEN [r EXCEPT !.begin = 0, !.end = 0, !.score = <<r.identical, r.length>>]
    ELSE [r EXCEPT !.score = <<r.identical, r.length>>]

\* from "if (m_begin == numeric_limits<uint32>::max())" to the end
UpdateFinish(r) ==
    IF r.begin = NoBegin
    THEN [r EXCEPT !.begin = 0, !.end = 0, !.score = <<r.identical, r.length>>]
    ELSE [r EXCEPT
            !.seq = [i \in 1 .. Len(r.seq) |->
                        IF i - 1 < r.begin \/ i - 1 >= r.end THEN " "
                        ELSE IF is_gap(r.seq[i]) THEN "." ELSE r.seq[i]],
            !.score = <<r.identical, r.length>>]

\* seq_impl::update(qseq) for a query as long as the row: the row after the
\* call, whether the call threw, whether it ended in a fault, whether kD was
\* read outside its table, and the local insertion when the loop ended
update(r, q, env) ==
    LET start == [r |-> [r EXCEPT !.ifir = 0, !.similar = 0, !.identical = 0,
                                   !.gapn = 0, !.gaps = 0,
                                   !.begin = NoBegin, !.end = 0],
                  ipos |-> 1,
                  jpos |-> IF r.jfir = 0 THEN 1 ELSE r.jfir,
                  sgapf |-> FALSE, qgapf |-> FALSE,
                  gapn |-> 0, gaps |-> 0, i |-> 0,
                  ins |-> [ipos |-> 0, jpos |-> 0, seq |-> <<>>],
                  length |-> 0,
                  thrown |-> FALSE, fault |-> FALSE, oob |-> FALSE]
    IN  CHOOSE t \in
            {[row |-> IF fin.thrown \/ fin.fault THEN fin.r ELSE UpdateFinish(fin.r),
              thrown |-> fin.thrown, fault |-> fin.fault, oob |-> fin.oob,
              open |-> fin.qgapf] :
                fin \in {UpdateLoop(q, start, env)}} : TRUE

----------------------------------------------------------------------------
(* Specification of the reducer: a query and a row of equal size, as        *)
(* ReadFastA leaves them after append, and one update of the row.           *)

QueryChars == {"A", "-", "?"}
RowChars == {"A", "C", "-", "?"}

NoOp == [name |-> "none"]

UpdateInit ==
    /\ phase = "reduce"
    /\ \E n \in 1 .. MaxCols :
         \E q \in [1 .. n -> QueryChars], s \in [1 .. n -> RowChars] :
            msa = <<append(seq_impl, q), append(seq_impl, s)>>
    /\ op = NoOp
    /\ data = <<>> /\ NoKernel /\ NoTree /\ NoQueue /\ NoDriver
    /\ NoHits /\ NoCons

\* s->update(qseq) for row i, in any build
UpdateRow(i) ==
    /\ phase = "reduce"
    /\ op = NoOp
    /\ \E env \in UpdateBuilds :
         \E u \in {update(msa[i], msa[1].seq, env)} :
            /\ msa' = [msa EXCEPT ![i] = u.row]
            /\ op' = [name |-> "update", row |-> i, before |-> msa[i],
                      q |-> msa[1].seq, env |-> env,
                      thrown |-> u.thrown, fault |-> u.fault, oob |-> u.oob,
                      open |-> u.open]
    /\ UNCHANGED <<kernelVars, treeVars, queueVars, driverVars>>
    /\ UNCHANGED <<hits, res, cq, cprod, cworker, csum, lock>>

UpdateNext == \E i \in 2 .. Len(msa) : UpdateRow(i)

SpecUpdate == UpdateInit /\ [][UpdateNext]_vars

----------------------------------------------------------------------------
(* Properties of the reducer                                                *)

\* the last operation was an update that returned
UpdateReturned == op.name = "update" /\ ~op.thrown /\ ~op.fault

\* the columns of the last update with a residue in query and subject
AlignedColumns ==
    {i \in 1 .. Len(op.q) : ~is_gap(op.q[i]) /\ ~is_gap(op.before.seq[i])}

\* C11: after update on a row and a query of equal size, alignment_length >=
\* identical >= 0, alignment_length >= similar >= 0 and gaps <= gapn, also
\* for rows with exactly one column where query and subject are both
\* non-gap, and for rows with none.
ReducedCounts ==
    UpdateReturned =>
        LET r == msa[op.row]
        IN  /\ r.length >= r.identical /\ r.identical >= 0
            /\ r.length >= r.similar /\ r.similar >= 0
            /\ r.gaps <= r.gapn

\* a row "A" against the query "A": one identical column and
\* alignment_length 0, with every read of kD inside its table
ReducedCountsWitness ==
    /\ UpdateReturned /\ ~op.oob
    /\ op.q = <<"A">> /\ op.before.seq = <<"A">>
    /\ Cardinality(AlignedColumns) = 1
    /\ msa[op.row].identical = 1 /\ msa[op.row].length = 0

\* the columns the last update scored (those that reach the validation):
\* the subject is no gap there; the loop ends at a throw or a fault
ScoredColumns ==
    {i \in 1 .. Len(op.q) : ~is_gap(op.before.seq[i])}

\* C13: update throws whenever the query or subject character of a column
\* it scores is not in the residue alphabet (residue index -1); no such
\* character is accepted and used for the similarity lookup.
InvalidLetterThrows ==
    (op.name = "update"
        /\ \E i \in ScoredColumns :
              kResidueIX(op.q[i]) = -1 \/ kResidueIX(op.before.seq[i]) = -1)
    => op.thrown

\* the query "?" against the row "A": update returns without a throw after
\* a similarity lookup outside the table
InvalidLetterAccepted ==
    /\ UpdateReturned /\ op.oob
    /\ op.q = <<"?">> /\ op.before.seq = <<"A">>
    /\ msa[op.row].end = 1

----------------------------------------------------------------------------
(* Specification of one row: append, cut and update in any order.           *)

\* the number of calls made on the row
MaxOps == 4

LineChars == {"A", "-"}

RowInit ==
    /\ phase = "row"
    /\ msa = <<seq_impl>>
    /\ op = [name |-> "new", n |-> 0]
    /\ data = <<>> /\ NoKernel /\ NoTree /\ NoQueue /\ NoDriver
    /\ NoHits /\ NoCons

\* what no call on a row touches
RowFrame ==
    /\ UNCHANGED <<data, mat, dist, blocks, last>>
    /\ UNCHANGED <<treeVars, queueVars, driverVars>>
    /\ UNCHANGED <<hits, res, cq, cprod, cworker, csum, lock>>

\* msa[ix].append(sseq)
RowAppend ==
    /\ phase = "row" /\ op.n < MaxOps
    /\ \E s \in SeqsOf(LineChars, 1, 2) :
         /\ Len(msa[1].seq) + Len(s) <= MaxCols
         /\ msa' = [msa EXCEPT ![1] = append(@, s)]
         /\ op' = [name |-> "append", n |-> op.n + 1]
    /\ UNCHANGED phase
    /\ RowFrame

\* s.cut(pos, n) with pos + n <= m_size
RowCut ==
    /\ phase = "row" /\ op.n < MaxOps
    /\ \E pos \in 0 .. Len(msa[1].seq) :
         \E n \in 0 .. Len(msa[1].seq) - pos :
            /\ msa' = [msa EXCEPT ![1] = cut(@, pos, n)]
            /\ op' = [name |-> "cut", n |-> op.n + 1]
    /\ UNCHANGED phase
    /\ RowFrame

\* s->update(qseq) with a query as long as the row; a fault ends the run
RowUpdate ==
    /\ phase = "row" /\ op.n < MaxOps
    /\ \E q \in [1 .. Len(msa[1].seq) -> LineChars], env \in UpdateBuilds :
         \E u \in {update(msa[1], q, env)} :
            /\ op' = [name |-> "update", n |-> op.n + 1, row |-> 1,
                      before |-> msa[1], q |-> q, env |-> env,
                      thrown |-> u.thrown, fault |-> u.fault, oob |-> u.oob,
                      open |-> u.open]
            /\ IF u.thrown \/ u.fault
               THEN phase' = "aborted" /\ UNCHANGED msa
               ELSE msa' = [msa EXCEPT ![1] = u.row] /\ UNCHANGED phase
    /\ RowFrame

RowNext == RowAppend \/ RowCut \/ RowUpdate

SpecRow == RowInit /\ [][RowNext]_vars

\* C12: after any sequence of append, cut(pos, n) with pos + n <= size and
\* update calls, alignment_begin <= alignment_end <= size, and both are 0
\* when update found no column to start the window.
WindowInRow ==
    phase = "row" =>
        LET r == msa[1]
        IN  /\ r.begin <= r.end /\ r.end <= Len(r.seq)
            /\ (op.name = "update"
                    /\ \A i \in 1 .. Len(op.q) : is_gap(op.before.seq[i]))
                => (r.begin = 0 /\ r.end = 0)

\* update has set the window to the last column and cut has kept the first
\* column only: alignment_begin lies behind alignment_end and the row
WindowInRowWitness ==
    /\ phase = "row" /\ op.name = "cut"
    /\ Len(msa[1].seq) = 1
    /\ msa[1].begin = 2 /\ msa[1].end = 1

----------------------------------------------------------------------------
(* ResidueHInfo::CalculateVariability for one residue of the query.         *)

\* the number of hits of the report
MaxHits == 7

\* the buckets of ResidueHInfo::dist
NBuckets == 20

\* Hit::Hit: the row, the row of the query, and the chain tag
Hit(s, q, chain) ==
    [seq |-> s, qseq |-> q, chain |-> chain, nr |-> 0,
     ide |-> <<s.identical, s.length>>, wsim |-> <<s.similar, s.length>>]

\* ResidueHInfo::ResidueHInfo(a, pos, chain, ...)
ResidueHInfo(a, pos, chain) ==
    [letter |-> a, pos |-> pos, chain |-> chain,
     nocc |-> 1, ndel |-> 0, nins |-> 0,
     dist |-> [b \in 0 .. NBuckets - 1 |-> 0], freqs |-> <<>>]

\* the percentage truncated
PercentTruncated(count, nocc) == (100 * count) \div nocc

\* uint32((100.0 * freq) + 0.5) with freq = double(dist[a]) / nocc
Percent(count, nocc) == (200 * count + nocc) \div (2 * nocc)

\* the hits CalculateVariability looks at: those of the residue's chain
OnChain(r, hs) == SelectSeq(hs, LAMBDA h : h.chain = r.chain)

\* the number of elements of a sequence that satisfy a test
CountOf(s, Test(_)) == Len(SelectSeq(s, Test))

\* t[pos] >= 'a' and t[pos] <= 'y'
IsLowerAY(c) == c \in {"a", "c", "d", "e"}

\* CalculateVariability(hits); freqs lists the frequencies <<count, nocc>>
\* that enter the entropy sum
CalculateVariability(r, hs) ==
    LET ix == kResidueIX(r.letter)
        same == OnChain(r, hs)
        col(h) == At(h.seq.seq, r.pos)
        counted == SelectSeq(same, LAMBDA h : kResidueIX(col(h)) >= 0)
        nocc == r.nocc + Len(counted)
        count(b) == (IF b = ix THEN 1 ELSE 0)
                        + CountOf(counted, LAMBDA h : kResidueIX(col(h)) = b)
        q == hs[1].qseq
        gap == r.pos + 1 < q.end - q.begin /\ is_gap(At(q.seq, r.pos + 1))
    IN  IF hs = <<>> THEN r
        ELSE IF ix < 0
        THEN [r EXCEPT !.dist = [b \in 0 .. NBuckets - 1 |-> 0], !.freqs = <<>>]
        ELSE [r EXCEPT
                !.nocc = nocc,
                !.dist = [b \in 0 .. NBuckets - 1 |-> Percent(count(b), nocc)],
                !.freqs = [k \in 1 .. Cardinality({b \in 0 .. NBuckets - 1 : count(b) > 0}) |->
                            <<count(CHOOSE b \in 0 .. NBuckets - 1 :
                                        /\ count(b) > 0
                                        /\ Cardinality({c \in 0 .. b : count(c) > 0}) = k),
                              nocc>>],
                !.ndel = @ + CountOf(same, LAMBDA h :
                                /\ r.pos > h.seq.begin /\ r.pos < h.seq.end
                                /\ is_gap(col(h))),
                !.nins = @ + CountOf(same, LAMBDA h : gap /\ IsLowerAY(col(h)))]

\* the letters of the hits at the column of the residue
HitLetters == {"A", "C", "D", "E"}

\* a row of one column as update leaves it
Column(c) ==
    [append(seq_impl, <<c>>) EXCEPT !.begin = 0,
                                    !.end = IF is_gap(c) THEN 0 ELSE 1]

\* the first hit of the list: on the chain of the residue or on another
\* one, with a letter or a gap at the column
FirstHits ==
    {Hit(Column(c), Column("A"), "A") : c \in HitLetters \cup {"."}}
        \cup {Hit(Column("C"), Column("A"), "B")}

VarInit ==
    /\ phase = "variability"
    /\ res = ResidueHInfo("A", 0, "A")
    /\ \E n \in 0 .. MaxHits :
         \E first \in FirstHits, cs \in [2 .. n -> HitLetters] :
            hits = [k \in 1 .. n |->
                        IF k = 1 THEN first
                        ELSE Hit(Column(cs[k]), Column("A"), "A")]
    /\ msa = <<>> /\ op = NoOp
    /\ data = <<>> /\ NoKernel /\ NoTree /\ NoQueue /\ NoDriver /\ NoCons

\* ri->CalculateVariability(hits)
VarCalculate ==
    /\ phase = "variability"
    /\ res' = CalculateVariability(res, hits)
    /\ phase' = "profiled"
    /\ UNCHANGED <<data, mat, dist, blocks, last>>
    /\ UNCHANGED <<treeVars, queueVars, driverVars>>
    /\ UNCHANGED <<msa, op, hits, cq, cprod, cworker, csum, lock>>

VarNext == VarCalculate

SpecVar == VarInit /\ [][VarNext]_vars

\* the hits counted for bucket b, counted from the hit list
Occurrences(b) ==
    (IF kResidueIX(res.letter) = b THEN 1 ELSE 0)
        + Cardinality({k \in DOMAIN hits :
                          /\ hits[k].chain = res.chain
                          /\ kResidueIX(hits[k].seq.seq[res.pos + 1]) = b})

RECURSIVE SumTo(_, _)
SumTo(f, b) == IF b < 0 THEN 0 ELSE f[b] + SumTo(f, b - 1)

DistSum == SumTo(res.dist, NBuckets - 1)

\* C14 (as stated): after CalculateVariability on a residue with a valid
\* query letter and nocc > 0, the 20 percentage buckets of dist sum to 100
\* within 1.
DistSumsTo100 ==
    (phase = "profiled" /\ hits # <<>> /\ kResidueIX(res.letter) >= 0
        /\ res.nocc > 0)
    => (DistSum >= 99 /\ DistSum <= 101)

\* C14 (amended): every bucket is within one half of its exact percentage
\* 100 * count / nocc, and the buckets sum to 100 within half the number of
\* non-zero buckets.
DistSumsTo100ByBuckets ==
    (phase = "profiled" /\ hits # <<>> /\ kResidueIX(res.letter) >= 0
        /\ res.nocc > 0)
    => /\ \A b \in 0 .. NBuckets - 1 :
            /\ 2 * res.nocc * res.dist[b] <= 200 * Occurrences(b) + res.nocc
            /\ 2 * res.nocc * res.dist[b] >= 200 * Occurrences(b) - res.nocc
       /\ 2 * DistSum
            <= 200 + Cardinality({b \in 0 .. NBuckets - 1 : Occurrences(b) > 0})
       /\ 2 * DistSum
            >= 200 - Cardinality({b \in 0 .. NBuckets - 1 : Occurrences(b) > 0})

\* eight occurrences over four letters, 5 + 1 + 1 + 1: the buckets 63, 13,
\* 13, 13 sum to 102
DistSumWitness ==
    /\ phase = "profiled" /\ res.nocc = 8
    /\ Cardinality({b \in 0 .. NBuckets - 1 : res.dist[b] = 13}) = 3
    /\ DistSum = 102

----------------------------------------------------------------------------
(* CreateHSSP: the hit list is sorted, cut to max_hits and numbered.  A     *)
(* float quotient is a pair <<n, d>> with d >= 0: 0 / 0 is NaN, n / 0 with  *)
(* n > 0 is +infinity.                                                      *)

\* the longest hit list
MaxList == 4

IsNaN(p) == p[1] = 0 /\ p[2] = 0

\* p > q for floats
FloatGt(p, q) ==
    /\ ~IsNaN(p) /\ ~IsNaN(q)
    /\ IF q[2] = 0 THEN FALSE
       ELSE IF p[2] = 0 THEN TRUE
       ELSE p[1] * q[2] > q[1] * p[2]

\* p == q for floats
FloatEq(p, q) ==
    /\ ~IsNaN(p) /\ ~IsNaN(q)
    /\ IF p[2] = 0 \/ q[2] = 0 THEN p[2] = q[2]
       ELSE p[1] * q[2] = q[1] * p[2]

\* Hit::operator<
HitLess(a, b) ==
    \/ FloatGt(a.ide, b.ide)
    \/ (FloatEq(a.ide, b.ide) /\ a.seq.length > b.seq.length)
    \/ (FloatEq(a.ide, b.ide) /\ a.seq.length = b.seq.length
            /\ a.seq.id > b.seq.id)

\* neither is less than the other
Equivalent(a, b) == ~HitLess(a, b) /\ ~HitLess(b, a)

\* what std::sort asks of its comparison: equivalence is transitive
StrictWeak(hs) ==
    \A i, j, k \in DOMAIN hs :
        (Equivalent(hs[i], hs[j]) /\ Equivalent(hs[j], hs[k]))
            => Equivalent(hs[i], hs[k])

Perms(n) == {f \in [1 .. n -> 1 .. n] : \A i, j \in 1 .. n : f[i] = f[j] => i = j}

\* sort(hits.begin(), hits.end(), compare_hit()): a rearrangement in which
\* no hit is less than one before it; any rearrangement when the
\* comparison is no strict weak ordering
SortOutcomes(hs) ==
    {[k \in DOMAIN hs |-> hs[f[k]]] :
        f \in {g \in Perms(Len(hs)) :
                  StrictWeak(hs) =>
                     \A i, j \in DOMAIN hs :
                        i < j => ~HitLess(hs[g[j]], hs[g[i]])}}

\* hits.erase(hits.begin() + inMaxHits, hits.end())
Truncate(hs, inMaxHits) ==
    IF inMaxHits > 0 /\ Len(hs) > inMaxHits THEN SubSeq(hs, 1, inMaxHits) ELSE hs

\* the numbering in list order
NumberByPosition(hs) == [k \in DOMAIN hs |-> [hs[k] EXCEPT !.nr = k]]

\* "uint32 nr = 1; foreach (hit_ptr h, hits) h->m_nr = nr++"
Number(hs) == NumberByPosition(hs)

\* the identical / alignment_length counts of the rows of the hits
Scores == {<<0, 0>>, <<2, 2>>, <<1, 2>>, <<3, 4>>}

\* the row with id k and the counts v, as update leaves them
ScoredRow(k, v) ==
    [seq_impl EXCEPT !.id = k, !.identical = v[1], !.length = v[2],
                     !.score = v]

HitsInit ==
    /\ phase = "hits"
    /\ \E n \in 0 .. MaxList :
         \E v \in [1 .. n -> Scores] :
            hits = [k \in 1 .. n |-> Hit(ScoredRow(k, v[k]), seq_impl, "A")]
    /\ \E m \in 0 .. 2 : op = [name |-> "CreateHSSP", inMaxHits |-> m,
                               before |-> <<>>]
    /\ res = <<>> /\ msa = <<>>
    /\ data = <<>> /\ NoKernel /\ NoTree /\ NoQueue /\ NoDriver /\ NoCons

\* CreateHSSP from the sort to the numbering; an empty list is an exception
HitsFinish ==
    /\ phase = "hits"
    /\ \E sorted \in SortOutcomes(hits) :
         \E kept \in {Truncate(sorted, op.inMaxHits)} :
            IF kept = <<>>
            THEN /\ phase' = "no hits"
                 /\ hits' = kept
            ELSE /\ phase' = "numbered"
                 /\ hits' = Number(kept)
    /\ op' = [op EXCEPT !.before = hits]
    /\ UNCHANGED <<data, mat, dist, blocks, last>>
    /\ UNCHANGED <<treeVars, queueVars, driverVars>>
    /\ UNCHANGED <<msa, res, cq, cprod, cworker, csum, lock>>

HitsNext == HitsFinish

SpecHits == HitsInit /\ [][HitsNext]_vars

\* the hits of the list before the sort that are no longer in it
Dropped ==
    {k \in DOMAIN op.before :
        \A j \in DOMAIN hits : hits[j].seq.id # op.before[k].seq.id}

\* C15: the final hit list is ordered by identity descending with the longer
\* alignment first among equal identities, the serial numbers 1..nalign
\* follow that order, and with max_hits > 0 at most max_hits hits remain,
\* the first ones in that order.
HitsOrdered ==
    phase = "numbered" =>
        /\ \A i, j \in DOMAIN hits :
              i < j =>
                \/ FloatGt(hits[i].ide, hits[j].ide)
                \/ (FloatEq(hits[i].ide, hits[j].ide)
                        /\ hits[i].seq.length >= hits[j].seq.length)
        /\ \A k \in DOMAIN hits : hits[k].nr = k
        /\ op.inMaxHits > 0 => Len(hits) <= op.inMaxHits
        /\ \A k \in Dropped : \A j \in DOMAIN hits :
              ~HitLess(op.before[k], hits[j])

\* the list std::sort of libstdc++ returns for the identities 1, 1/2, NaN,
\* 3/4: the hit with identity 1/2 is numbered before the one with 3/4
HitsUnorderedWitness ==
    /\ phase = "numbered" /\ Len(hits) = 4
    /\ hits[1].ide = <<2, 2>> /\ hits[2].ide = <<1, 2>>
    /\ hits[3].ide = <<0, 0>> /\ hits[4].ide = <<3, 4>>
    /\ hits[2].nr = 2 /\ hits[4].nr = 4

----------------------------------------------------------------------------
(* entry::insert_gap and entry::append_gap on one entry *)

\* the most calls made on the entry
MaxGaps == 3

GapsInit ==
    /\ phase = "gaps"
    /\ \E n \in 1 .. MaxLen :
         \E s \in [1 .. n -> InputResidues] :
            \E p \in {<<>>} \cup [1 .. n -> 0 .. MaxPos] :
               /\ data = <<Entry(s, p)>>
               /\ op = [name |-> "none", pos |-> 0, calls |-> 0,
                        before |-> Entry(s, p), orig |-> Entry(s, p)]
    /\ msa = <<>>
    /\ NoKernel /\ NoTree /\ NoQueue /\ NoDriver /\ NoHits /\ NoCons

GapsFrame ==
    /\ UNCHANGED <<phase, mat, dist, blocks, last>>
    /\ UNCHANGED <<treeVars, queueVars, driverVars>>
    /\ UNCHANGED <<msa, hits, res, cq, cprod, cworker, csum, lock>>

\* e.insert_gap(pos)
GapsInsert ==
    /\ phase = "gaps"
    /\ op.calls < MaxGaps
    /\ \E pos \in 0 .. MaxLen + MaxGaps :
         /\ data' = <<insert_gap(data[1], pos)>>
         /\ op' = [op EXCEPT !.name = "insert_gap", !.pos = pos,
                             !.calls = @ + 1, !.before = data[1]]
    /\ GapsFrame

\* e.append_gap()
GapsAppend ==
    /\ phase = "gaps"
    /\ op.calls < MaxGaps
    /\ data' = <<append_gap(data[1])>>
    /\ op' = [op EXCEPT !.name = "append_gap", !.pos = Len(data[1].seq),
                        !.calls = @ + 1, !.before = data[1]]
    /\ GapsFrame

GapsNext == GapsInsert \/ GapsAppend

SpecGaps == GapsInit /\ [][GapsNext]_vars

\* s without its element at index k (from 1)
WithoutIndex(s, k) == SubSeq(s, 1, k - 1) \o SubSeq(s, k + 1, Len(s))

\* the elements of s at the indices where the sequence holds no gap
RECURSIVE Kept(_, _)
Kept(sq, s) ==
    IF sq = <<>> THEN <<>>
    ELSE IF Head(sq) = kSignalGapCode THEN Kept(Tail(sq), Tail(s))
    ELSE <<Head(s)>> \o Kept(Tail(sq), Tail(s))

\* C16: insert_gap(pos) adds exactly one gap symbol at index pos, at the end
\* when pos exceeds the length, and leaves the residues in their order; a
\* non-empty positions vector gets a 0 at the same index, so every residue
\* keeps its position value and positions.size() equals the sequence length
\* after any sequence of insert_gap and append_gap calls
GapFrameEffect ==
    LET e == data[1]
        b == op.before
        k == IF op.pos > Len(b.seq) THEN Len(b.seq) + 1 ELSE op.pos + 1
    IN  /\ op.name \in {"insert_gap", "append_gap"} =>
              /\ Len(e.seq) = Len(b.seq) + 1
              /\ e.seq[k] = kSignalGapCode
              /\ WithoutIndex(e.seq, k) = b.seq
              /\ b.positions = <<>> => e.positions = <<>>
              /\ b.positions # <<>> =>
                    /\ e.positions[k] = 0
                    /\ WithoutIndex(e.positions, k) = b.positions
        /\ op.name = "append_gap" => k = Len(e.seq)
        /\ e.positions = <<>> \/ Len(e.positions) = Len(e.seq)
        /\ Kept(e.seq, e.seq) = op.orig.seq
        /\ e.positions # <<>> => Kept(e.seq, e.positions) = op.orig.positions
        /\ Len(e.seq) = Len(op.orig.seq) + op.calls

\* a gap inserted in front of a residue that carries a position, after
\* another call, the last one with pos beyond the length
GapFrameWitness ==
    /\ op.name = "insert_gap" /\ op.calls = MaxGaps
    /\ op.pos > Len(op.before.seq)
    /\ data[1].seq[1] = kSignalGapCode
    /\ \E i \in DOMAIN data[1].positions :
          i > 1 /\ data[1].positions[i] > 0 /\ data[1].seq[i] # kSignalGapCode

----------------------------------------------------------------------------
(* CalculateConservation: the driver puts the row indices in a buffer, the  *)
(* workers take them, accumulate in thread-local vectors and merge these    *)
(* into the shared vectors under sSumLock.  Rows are indexed from 1, the    *)
(* query being row 1; columns are counted from 0 as in the code.            *)

\* most rows of the alignment, the query included
MaxRows == 3

\* numeric_limits<uint32>::max(), which is no row index
kSentinelRow == -1

\* numeric_limits<float>::min(), the smallest positive normal float: a value
\* that is neither 0 nor a value of kD
FltMin == <<1, 1000000>>

\* vector<float> v(s.length())
ZeroVector(n) == [k \in 1 .. n |-> FZero]

\* character k (from 0) of a row
CharAt(s, k) == s.seq[k + 1]

\* "uint32 b = ...; uint32 e = ...": the overlap of the windows of two rows
Overlap(si, sj) ==
    [b |-> IF si.begin < sj.begin THEN sj.begin ELSE si.begin,
     e |-> IF si.end > sj.end THEN sj.end ELSE si.end]

\* both rows hold a residue in column k
BothResidues(si, sj, k) == ~is_gap(CharAt(si, k)) /\ ~is_gap(CharAt(sj, k))

\* the first loop over the columns of a pair: simval is written where both
\* rows hold a residue and keeps what it held elsewhere
PairSimval(si, sj, simval) ==
    LET w == Overlap(si, sj)
    IN  [k1 \in DOMAIN simval |->
            LET k == k1 - 1
            IN  IF k >= w.b /\ k < w.e /\ BothResidues(si, sj, k)
                THEN LET ri == kResidueIX(CharAt(si, k))
                         rj == kResidueIX(CharAt(sj, k))
                     IN  IF ri >= 0 /\ rj >= 0 THEN FInt(kD(ri, rj)) ELSE FltMin
                ELSE simval[k1]]

\* len and agr of a pair
PairLen(si, sj) ==
    LET w == Overlap(si, sj)
    IN  Cardinality({k \in w.b .. w.e - 1 : BothResidues(si, sj, k)})

PairAgr(si, sj) ==
    LET w == Overlap(si, sj)
    IN  Cardinality({k \in w.b .. w.e - 1 :
                        BothResidues(si, sj, k) /\ CharAt(si, k) = CharAt(sj, k)})

\* "float distance = 1 - (float(agr) / float(len))", for len > 0
PairDistance(si, sj) == Frac(PairLen(si, sj) - PairAgr(si, sj), PairLen(si, sj))

\* the columns the second loop adds to
PairColumns(si, sj, simval) ==
    LET w == Overlap(si, sj)
    IN  IF PairLen(si, sj) > 0
        THEN {k \in w.b .. w.e - 1 : simval[k + 1] # FltMin}
        ELSE {}

\* the body of the loop over j for one pair, on the thread-local vectors;
\* pairs notes the pair and the columns whose sums it increased
Pair(loc, si, sj) ==
    CHOOSE r \in
        {[sumvar |-> [k1 \in DOMAIN x.sv |->
                        IF k1 - 1 \in x.cols
                        THEN FAdd(loc.sumvar[k1], FMul(x.d, x.sv[k1]))
                        ELSE loc.sumvar[k1]],
          sumdist |-> [k1 \in DOMAIN x.sv |->
                        IF k1 - 1 \in x.cols
                        THEN FAdd(loc.sumdist[k1], FMul(x.d, <<3, 2>>))
                        ELSE loc.sumdist[k1]],
          simval |-> x.sv,
          pairs |-> Append(loc.pairs,
                           [i |-> si.id, j |-> sj.id,
                            cols |-> IF x.cols # {} /\ x.d # FZero
                                     THEN x.cols ELSE {}])] :
            x \in {[sv |-> sv, cols |-> PairColumns(si, sj, sv),
                    d |-> IF PairLen(si, sj) > 0 THEN PairDistance(si, sj)
                          ELSE FZero] :
                      sv \in {PairSimval(si, sj, loc.simval)}}} : TRUE

\* "for (uint32 j = i + 1; j < msa.size(); ++j)", pruned rows skipped
RECURSIVE PairsFrom(_, _, _, _)
PairsFrom(loc, rows, i, j) ==
    IF j > Len(rows) THEN loc
    ELSE IF rows[j].pruned THEN PairsFrom(loc, rows, i, j + 1)
    ELSE CHOOSE r \in {PairsFrom(l, rows, i, j + 1) :
                          l \in {Pair(loc, rows[i], rows[j])}} : TRUE

\* the thread-local vectors of a worker that starts
Local(n) ==
    [sumvar |-> ZeroVector(n), sumdist |-> ZeroVector(n),
     simval |-> ZeroVector(n), pairs |-> <<>>]

\* the rows: update has run on every row but the query
ConsRow(k, s, q, pruned) ==
    IF k = 1 THEN [append(seq_impl, s) EXCEPT !.id = k]
    ELSE [update(append(seq_impl, s), q, [before |-> "C", kd |-> "nonneg"]).row
             EXCEPT !.id = k, !.pruned = pruned]

ConsLetters == {"A", "C", "-"}

ConsInit ==
    /\ phase = "conservation"
    /\ \E n \in 1 .. MaxCols, m \in 2 .. MaxRows :
         \E ss \in [2 .. m -> [1 .. n -> ConsLetters]], pr \in BOOLEAN :
            LET q == [k \in 1 .. n |-> "A"]
            IN  msa = [k \in 1 .. m |->
                         IF k = 1 THEN ConsRow(1, q, q, FALSE)
                         ELSE ConsRow(k, ss[k], q, pr /\ k = m)]
    /\ \E t \in 1 .. MaxWorkers :
         cworker = [w \in 1 .. t |->
                      [pc |-> "get"] @@ Local(Len(msa[1].seq))]
    /\ cq = <<>>
    /\ cprod = [pc |-> "put", i |-> 1]
    /\ csum = [sumvar |-> ZeroVector(Len(msa[1].seq)),
               sumdist |-> ZeroVector(Len(msa[1].seq))]
    /\ lock = 0
    /\ op = <<>> /\ data = <<>>
    /\ NoKernel /\ NoTree /\ NoQueue /\ NoDriver /\ NoHits

ConsFrame ==
    /\ UNCHANGED <<phase, data, mat, dist, blocks, last>>
    /\ UNCHANGED <<treeVars, queueVars, driverVars>>
    /\ UNCHANGED <<msa, op, hits, res>>

\* driver: "for (uint32 i = 0; i + 1 < msa.size(); ++i)" with b.put(i)
ConsPut ==
    /\ cprod.pc = "put"
    /\ IF cprod.i + 1 <= Len(msa)
       THEN /\ cq' = IF msa[cprod.i].pruned THEN cq
                     ELSE buffer_put(cq, cprod.i)
            /\ cprod' = [cprod EXCEPT !.i = @ + 1]
       ELSE /\ cq' = buffer_put(cq, kSentinelRow)
            /\ cprod' = [cprod EXCEPT !.pc = "join"]
    /\ UNCHANGED <<cworker, csum, lock>>
    /\ ConsFrame

\* worker: "uint32 i = b.get()" and the loop over j for that i
ConsGet(w) ==
    /\ cworker[w].pc = "get"
    /\ cq # <<>>
    /\ buffer_front(cq) # kSentinelRow
    /\ cq' = buffer_pop(cq)
    /\ cworker' = [cworker EXCEPT ![w] =
                      [pc |-> "get"] @@
                      PairsFrom([sumvar |-> @.sumvar, sumdist |-> @.sumdist,
                                 simval |-> @.simval, pairs |-> @.pairs],
                                msa, buffer_front(cq), buffer_front(cq) + 1)]
    /\ UNCHANGED <<cprod, csum, lock>>
    /\ ConsFrame

\* worker: the sentinel ends the loop and is put back
ConsSentinel(w) ==
    /\ cworker[w].pc = "get"
    /\ cq # <<>>
    /\ buffer_front(cq) = kSentinelRow
    /\ cq' = buffer_put(buffer_pop(cq), kSentinelRow)
    /\ cworker' = [cworker EXCEPT ![w].pc = "lock"]
    /\ UNCHANGED <<cprod, csum, lock>>
    /\ ConsFrame

\* worker: "boost::mutex::scoped_lock l(sSumLock)"
ConsLock(w) ==
    /\ cworker[w].pc = "lock"
    /\ lock = 0
    /\ lock' = w
    /\ cworker' = [cworker EXCEPT ![w].pc = "merge"]
    /\ UNCHANGED <<cq, cprod, csum>>
    /\ ConsFrame

\* worker: the two transform calls, and the lock released on return
ConsMerge(w) ==
    /\ cworker[w].pc = "merge"
    /\ csum' = [sumvar |-> [k \in DOMAIN csum.sumvar |->
                               FAdd(cworker[w].sumvar[k], csum.sumvar[k])],
                sumdist |-> [k \in DOMAIN csum.sumdist |->
                               FAdd(cworker[w].sumdist[k], csum.sumdist[k])]]
    /\ lock' = 0
    /\ cworker' = [cworker EXCEPT ![w].pc = "done"]
    /\ UNCHANGED <<cq, cprod>>
    /\ ConsFrame

\* driver: threads.join_all()
ConsJoin ==
    /\ cprod.pc = "join"
    /\ \A w \in DOMAIN cworker : cworker[w].pc = "done"
    /\ cprod' = [cprod EXCEPT !.pc = "joined"]
    /\ UNCHANGED <<cq, cworker, csum, lock>>
    /\ ConsFrame

ConsNext ==
    \/ ConsPut
    \/ \E w \in DOMAIN cworker : ConsGet(w)
    \/ \E w \in DOMAIN cworker : ConsSentinel(w)
    \/ \E w \in DOMAIN cworker : ConsLock(w)
    \/ \E w \in DOMAIN cworker : ConsMerge(w)
    \/ ConsJoin

SpecCons == ConsInit /\ [][ConsNext]_vars

\* the records of the pairs the workers have processed
PairRecords ==
    {r \in UNION {{cworker[w].pairs[n] : n \in DOMAIN cworker[w].pairs} :
                     w \in DOMAIN cworker} : TRUE}

\* C18: a pair (i, j) increases sumvar[k] and sumdist[k] only at columns k
\* of its overlap window where both rows hold a non-gap residue; a column
\* where either row has a gap gets nothing from that pair, whatever earlier
\* pairs of the same worker stored for that column
GapColumnsMissing ==
    \A r \in PairRecords :
        LET w == Overlap(msa[r.i], msa[r.j])
        IN  \A k \in r.cols :
                /\ k >= w.b /\ k < w.e
                /\ BothResidues(msa[r.i], msa[r.j], k)

\* the first pair of a worker increases the sums of a column where the
\* second row has a gap
GapColumnCounted ==
    \E w \in DOMAIN cworker :
        /\ cworker[w].pairs # <<>>
        /\ LET r == cworker[w].pairs[1]
           IN  \E k \in r.cols :
                  /\ is_gap(CharAt(msa[r.j], k))
                  /\ cworker[w].sumdist[k + 1] # FZero

\* one worker taking every index the driver puts, in the order of the puts
RECURSIVE SingleWorker(_, _, _)
SingleWorker(loc, rows, i) ==
    IF i + 1 > Len(rows) THEN loc
    ELSE IF rows[i].pruned THEN SingleWorker(loc, rows, i + 1)
    ELSE SingleWorker(PairsFrom(loc, rows, i, i + 1), rows, i + 1)

\* the pairs (i, j), i < j, of rows that are not pruned
LivePairs ==
    {ij \in (DOMAIN msa) \X (DOMAIN msa) :
        ij[1] < ij[2] /\ ~msa[ij[1]].pruned /\ ~msa[ij[2]].pruned}

\* how many records the workers hold of the pair ij
TimesProcessed(ij) ==
    Cardinality({wn \in (DOMAIN cworker) \X (1 .. MaxRows * MaxRows) :
                    /\ wn[2] \in DOMAIN cworker[wn[1]].pairs
                    /\ cworker[wn[1]].pairs[wn[2]].i = ij[1]
                    /\ cworker[wn[1]].pairs[wn[2]].j = ij[2]})

\* C17: a worker adds its thread-local vectors to the shared ones only while
\* it holds the mutex, and after join_all the shared totals are those a
\* single worker would produce, for any number of workers and any
\* interleaving: every pair of non-pruned rows was processed exactly once
MergedTotals ==
    /\ \A w \in DOMAIN cworker : cworker[w].pc = "merge" => lock = w
    /\ cprod.pc = "joined" =>
          LET one == SingleWorker(Local(Len(msa[1].seq)), msa, 1)
          IN  /\ csum.sumvar = one.sumvar
              /\ csum.sumdist = one.sumdist
              /\ \A ij \in LivePairs : TimesProcessed(ij) = 1
              /\ \A r \in PairRecords : <<r.i, r.j>> \in LivePairs

\* two workers have joined, each processed a pair once, and the shared
\* sumvar is not the one a single worker produces
MergedTotalsDiffer ==
    /\ cprod.pc = "joined"
    /\ Len(cworker) = 2
    /\ \A w \in DOMAIN cworker : cworker[w].pairs # <<>>
    /\ \A ij \in LivePairs : TimesProcessed(ij) = 1
    /\ csum.sumvar # SingleWorker(Local(Len(msa[1].seq)), msa, 1).sumvar

----------------------------------------------------------------------------
(* Insertion records and the alignment window of the reducer (SpecUpdate)   *)

\* column i (from 1) of the last update holds a query gap
QueryGap(i) == is_gap(op.q[i])

\* the last column of the run of query-gap columns that starts at a
RECURSIVE RunEnd(_)
RunEnd(a) ==
    IF a < Len(op.q) /\ QueryGap(a + 1) THEN RunEnd(a + 1) ELSE a

\* the subject residues in the columns a .. b, as they were before the call
RunResidues(a, b) ==
    SelectSeq(SubSeq(op.before.seq, a, b), LAMBDA c : ~is_gap(c))

\* the first columns of the runs of query-gap columns in which the subject
\* has residues
RunStarts ==
    {a \in 1 .. Len(op.q) :
        /\ QueryGap(a)
        /\ a = 1 \/ ~QueryGap(a - 1)
        /\ RunResidues(a, RunEnd(a)) # <<>>}

\* how many of the characters c[1 .. a - 1] are residues
ResiduesBefore(c, a) == Cardinality({i \in 1 .. a - 1 : ~is_gap(c[i])})

\* C19: update produces exactly one insertion record for each run of
\* query-gap columns in which the subject has residues: the preceding aligned
\* subject character lowercased, the inserted residues, the following aligned
\* subject character lowercased (length = run length + 2), with ipos / jpos
\* the residue counters at the start of the run, also for a run that starts
\* at the first column or reaches the last column of the row
InsertionRecords ==
    UpdateReturned =>
        LET recs == msa[op.row].insertions
        IN  /\ Len(recs) = Cardinality(RunStarts)
            /\ \A a \in RunStarts :
                  \E n \in DOMAIN recs :
                     LET b == RunEnd(a)
                         mid == RunResidues(a, b)
                     IN  /\ recs[n].ipos = 1 + ResiduesBefore(op.q, a)
                         /\ recs[n].jpos = 1 + ResiduesBefore(op.before.seq, a)
                         /\ Len(recs[n].seq) = Len(mid) + 2
                         /\ SubSeq(recs[n].seq, 2, Len(mid) + 1) = mid
                         /\ (a > 1 /\ ~is_gap(op.before.seq[a - 1])) =>
                               recs[n].seq[1] = tolower(op.before.seq[a - 1])
                         /\ (b < Len(op.q) /\ ~is_gap(op.before.seq[b + 1])) =>
                               recs[n].seq[Len(mid) + 2] =
                                   tolower(op.before.seq[b + 1])

\* query "A-", row "AC": the update returned, the run in the last column
\* left its insertion unfinished and the row holds no record
InsertionDropped ==
    /\ UpdateReturned
    /\ op.q = <<"A", "-">> /\ op.before.seq = <<"A", "C">>
    /\ op.open
    /\ msa[op.row].insertions = <<>>

\* the columns (from 0) of the last update that are no gap in both: the
\* query or the subject holds a residue
NotSharedGap ==
    {i \in 0 .. Len(op.q) - 1 :
        ~(is_gap(At(op.q, i)) /\ is_gap(At(op.before.seq, i)))}

\* the columns (from 0) where the subject held a residue before the update
SubjectColumns ==
    {i \in 0 .. Len(op.q) - 1 : ~is_gap(At(op.before.seq, i))}

SetMin(S) == CHOOSE x \in S : \A y \in S : x <= y
SetMax(S) == CHOOSE x \in S : \A y \in S : x >= y

\* the row holds spaces outside [begin, end) and no gap but '.' inside
WindowCleared(r) ==
    \A i \in 0 .. Len(r.seq) - 1 :
        IF i < r.begin \/ i >= r.end THEN At(r.seq, i) = " "
        ELSE is_gap(At(r.seq, i)) => At(r.seq, i) = "."

\* C20 (as stated): after update, alignment_begin is the first column that
\* is not a gap in both query and subject and alignment_end is one past the
\* last such column; outside [begin, end) the row holds spaces and every gap
\* inside is '.'
WindowOfNotSharedGaps ==
    UpdateReturned =>
        LET r == msa[op.row]
        IN  /\ NotSharedGap # {} =>
                  /\ r.begin = SetMin(NotSharedGap)
                  /\ r.end = SetMax(NotSharedGap) + 1
            /\ WindowCleared(r)

\* C20: after update, alignment_begin is the first column where the subject
\* holds a residue and alignment_end is one past the last such column;
\* outside [begin, end) the row holds spaces and every gap inside is '.';
\* a row without residues gets begin = end = 0 and keeps its characters
WindowOfSubject ==
    UpdateReturned =>
        LET r == msa[op.row]
        IN  IF SubjectColumns = {}
            THEN r.begin = 0 /\ r.end = 0 /\ r.seq = op.before.seq
            ELSE /\ r.begin = SetMin(SubjectColumns)
                 /\ r.end = SetMax(SubjectColumns) + 1
                 /\ WindowCleared(r)

\* query "AAA", row "-A-": the window is [1, 2) although the query holds
\* residues in the columns 0 and 2, and the row is cleared around it
WindowOfSubjectWitness ==
    /\ UpdateReturned
    /\ op.q = <<"A", "A", "A">> /\ op.before.seq = <<"-", "A", "-">>
    /\ msa[op.row].begin = 1 /\ msa[op.row].end = 2
    /\ msa[op.row].seq = <<" ", "A", " ">>

\* C21: update increments the identity counter exactly once for every column
\* where query and subject are both non-gap and carry the same character in
\* the input row, the aligned column right after an insertion run included,
\* and never at a column where either side is a gap
IdentityCounted ==
    UpdateReturned =>
        msa[op.row].identical =
            Cardinality({i \in AlignedColumns : op.q[i] = op.before.seq[i]})

\* query "A-A", row "ACA": the column after the insertion holds A in both,
\* the record "aCa" is pushed, and identical is 1
IdentityMissed ==
    /\ UpdateReturned
    /\ op.q = <<"A", "-", "A">> /\ op.before.seq = <<"A", "C", "A">>
    /\ Len(msa[op.row].insertions) = 1
    /\ msa[op.row].insertions[1].seq = <<"a", "C", "a">>
    /\ msa[op.row].identical = 1

----------------------------------------------------------------------------
(* Branch lengths of joinNeighbours (SpecTree)                              *)

\* most leaves of the trees whose branch lengths are checked
MaxJoin == 5

\* the distances of these trees: identical or unrelated sequences
JoinDistances == {FZero, FOne}

JoinInit ==
    /\ phase = "tree"
    /\ \E n \in 3 .. MaxJoin :
          /\ data = [i \in 1 .. n |-> Entry(<<resS>>, <<>>)]
          /\ nodes = [i \in 1 .. n |-> leaf_node(i)]
          /\ tree = [i \in 1 .. n |-> i]
          /\ dmat \in {[r |-> n, m |-> f] : f \in [LowerPairs(n) -> JoinDistances]}
    /\ NoKernel /\ NoQueue /\ NoDriver /\ NoHssp

SpecJoin == JoinInit /\ [][TreeNext]_vars

\* a step that joins two nodes of the tree vector
Joins == Len(nodes') = Len(nodes) + 1

\* the node the step allocates
NewNode == nodes'[Len(nodes')]

\* d(i, j) of the two nodes the step joins, in the matrix before the step
JoinedDistance ==
    LET i == CHOOSE k \in 0 .. dmat.r - 1 : At(tree, k) = NewNode.left
        j == CHOOSE k \in 0 .. dmat.r - 1 : At(tree, k) = NewNode.right
    IN  Dist(dmat.m, i, j)

\* C22 (as stated): in every join the two branch lengths add up to d(i, j),
\* and when the i-subtree has more leaves than the j-subtree the longer of
\* the two branches is the one attached to it
LongerOnLarger ==
    [][Joins =>
          /\ FAdd(NewNode.d_left, NewNode.d_right) = JoinedDistance
          /\ nodes[NewNode.left].leaf_count > nodes[NewNode.right].leaf_count
                => FLe(NewNode.d_right, NewNode.d_left)]_vars

\* C22: in every join the two branch lengths add up to d(i, j), and when
\* the i-subtree has more leaves than the j-subtree the branch attached to
\* it is the shorter of the two, or both are equal
ShorterOnLarger ==
    [][Joins =>
          /\ FAdd(NewNode.d_left, NewNode.d_right) = JoinedDistance
          /\ nodes[NewNode.left].leaf_count > nodes[NewNode.right].leaf_count
                => FLe(NewNode.d_left, NewNode.d_right)]_vars

\* a joined node whose left subtree has more leaves and the strictly
\* shorter branch
ShorterOnLargerWitness ==
    \E n \in DOMAIN nodes :
        /\ ~nodes[n].leaf
        /\ nodes[nodes[n].left].leaf_count > nodes[nodes[n].right].leaf_count
        /\ FLt(nodes[n].d_left, nodes[n].d_right)

\* C25: for every distance matrix with entries in [0, 1] every branch length
\* passed to a joined_node is >= 0, so every leaf's weight after the
\* construction is >= its initial value 1
BranchesNotNegative ==
    /\ \A n \in DOMAIN nodes :
          ~nodes[n].leaf =>
              FLe(FZero, nodes[n].d_left) /\ FLe(FZero, nodes[n].d_right)
    /\ \A e \in DOMAIN data : FLe(FOne, data[e].weight)

\* a finished tree with a negative right branch and a leaf lighter than 1
NegativeBranch ==
    /\ phase = "rooted"
    /\ \E n \in DOMAIN nodes : ~nodes[n].leaf /\ FLt(nodes[n].d_right, FZero)
    /\ \E e \in DOMAIN data : FLt(data[e].weight, FOne)

----------------------------------------------------------------------------
(* adjust_gp on one block                                                   *)

\* most rows and columns of the block
MaxGpRows == 2
MaxGpCols == 5

\* the residues of the block: S is hydrophilic, I is not
GpResidues == {resS, resI, kSignalGapCode}

\* "vector<float> gop_a(dimX, gop), gep_a(dimX, gep)" with gop 10, gep 0.2
GpOpen == FInt(10)
GpExtend == Frac(1, 5)

GpInit ==
    /\ phase = "gp"
    /\ \E rows \in 1 .. MaxGpRows, n \in 1 .. MaxGpCols :
         \E ss \in [1 .. rows -> [1 .. n -> GpResidues]] :
            data = [k \in 1 .. rows |-> Entry(ss[k], <<>>)]
    /\ op = [name |-> "none"]
    /\ msa = <<>>
    /\ NoKernel /\ NoTree /\ NoQueue /\ NoDriver /\ NoHits /\ NoCons

\* adjust_gp(gop_a, gep_a, a)
GpAdjust ==
    /\ phase = "gp"
    /\ \E n \in {Len(data[1].seq)} :
       \E r \in {adjust_gp([i \in 1 .. n |-> GpOpen], [i \in 1 .. n |-> GpExtend],
                           data, [k \in DOMAIN data |-> k])} :
          op' = [name |-> "adjust_gp", gop |-> r[1], gep |-> r[2]]
    /\ phase' = "adjusted"
    /\ UNCHANGED <<data, mat, dist, blocks, last>>
    /\ UNCHANGED <<treeVars, queueVars, driverVars>>
    /\ UNCHANGED <<msa, hits, res, cq, cprod, cworker, csum, lock>>

GpNext == GpAdjust

SpecGp == GpInit /\ [][GpNext]_vars

\* the columns (from 0) of the block, and those where some row has a gap
GpColumns == 0 .. Len(data[1].seq) - 1
GappedColumns ==
    {ix \in GpColumns : \E k \in DOMAIN data : At(data[k].seq, ix) = kSignalGapCode}

\* the distance from column ix to the nearest gapped column, 8 when none is
\* nearer than that
GapDistance(ix) ==
    LET near == {d \in 1 .. 7 : (ix + d) \in GappedColumns \/ (ix - d) \in GappedColumns}
    IN  IF near = {} THEN 8 ELSE CHOOSE d \in near : \A e \in near : d <= e

\* row k is hydrophilic in every column of a .. b
HydrophilicRun(k, a, b) ==
    \A i \in a .. b : is_hydrophilic(At(data[k].seq, i))

\* column ix lies in a run of at least 5 columns in which every row of K is
\* hydrophilic
InStretch(K, ix) ==
    \E a, b \in GpColumns :
        /\ a <= ix /\ ix <= b /\ b - a + 1 >= 5
        /\ \A k \in K : HydrophilicRun(k, a, b)

\* the residue specific factor of column ix
ResidueFactor(ix) ==
    FDiv(FSum([k \in DOMAIN data |-> RowPenalty(data[k], ix)]), FInt(Len(data)))

\* C23: adjust_gp applies exactly one of its four adjustments to a column:
\* the gap rule if a row has a gap there; otherwise only the proximity
\* factor (2 + (8-d)*2)/8 if a gap lies within 8 columns at distance d;
\* otherwise only the division by 3 in a hydrophilic stretch; otherwise only
\* the residue specific factor.  A column with no gap within 8 columns gets
\* no proximity factor, also near the ends of the block.
OneAdjustment ==
    op.name = "adjust_gp" =>
        \A ix \in GpColumns :
            op.gop[ix + 1] =
                IF ix \in GappedColumns
                THEN FMul(GpOpen,
                          FMul(Frac(3, 10),
                               Frac(Len(data) - GapRows(data, [k \in DOMAIN data |-> k], ix),
                                    Len(data))))
                ELSE IF GapDistance(ix) < 8
                THEN FMul(GpOpen, Frac(2 + (8 - GapDistance(ix)) * 2, 8))
                ELSE IF \E k \in DOMAIN data : InStretch({k}, ix)
                THEN FDiv(GpOpen, FInt(3))
                ELSE FMul(GpOpen, ResidueFactor(ix))

\* one row "I" without any gap: gop becomes 10 * 2 * 1.12, the proximity
\* factor for the end of the block at distance 1 and the residue factor
TwoAdjustments ==
    /\ op.name = "adjust_gp"
    /\ Len(data) = 1 /\ data[1].seq = <<resI>>
    /\ op.gop[1] = FMul(GpOpen, FMul(FInt(2), Frac(112, 100)))

\* the columns without a gap whose gop was divided by 3
Divided ==
    {ix \in GpColumns \ GappedColumns :
        \E f \in {Frac(2 + (8 - d) * 2, 8) : d \in 1 .. 7} \cup {FOne} :
            op.gop[ix + 1] = FDiv(FMul(GpOpen, f), FInt(3))}

----------------------------------------------------------------------------
(* The sentinel protocol of the three thread pools: calculateDistanceMatrix *)
(* (phase "matrix"), seq::update_all under ReadFastA (phase "update_all")   *)
(* and CalculateConservation (phase "conservation").                        *)

\* nullptr, the sentinel of buffer<seq*>
nullptr == 0

\* ReadFastA with gNrOfThreads > 1: the threads are created, nothing is put;
\* op counts the update calls on every row
AllInit ==
    /\ phase = "update_all"
    /\ \E n \in 1 .. 2, m \in 2 .. MaxRows :
         \E ss \in [2 .. m -> [1 .. n -> {"A", "-"}]] :
            msa = [k \in 1 .. m |->
                     IF k = 1 THEN append(seq_impl, [c \in 1 .. n |-> "A"])
                     ELSE append(seq_impl, ss[k])]
    /\ op = [k \in DOMAIN msa |-> 0]
    /\ cworker = [w \in 1 .. MaxWorkers |-> [pc |-> "get"]]
    /\ cq = <<>>
    /\ cprod = [pc |-> "put", i |-> 2]
    /\ csum = <<>> /\ lock = 0
    /\ data = <<>>
    /\ NoKernel /\ NoTree /\ NoQueue /\ NoDriver /\ NoHits

AllFrame ==
    /\ UNCHANGED <<phase, data, mat, dist, blocks, last>>
    /\ UNCHANGED <<treeVars, queueVars, driverVars>>
    /\ UNCHANGED <<hits, res, csum, lock>>

\* "for (uint32 i = 1; i < msa.size(); ++i) b.put(&msa[i])", then
\* b.put(nullptr)
AllPut ==
    /\ cprod.pc = "put"
    /\ IF cprod.i <= Len(msa)
       THEN /\ cq' = buffer_put(cq, cprod.i)
            /\ cprod' = [cprod EXCEPT !.i = @ + 1]
       ELSE /\ cq' = buffer_put(cq, nullptr)
            /\ cprod' = [cprod EXCEPT !.pc = "join"]
    /\ UNCHANGED <<msa, op, cworker>>
    /\ AllFrame

\* update_all: "seq* s = b.get()" and "s->update(qseq)"
AllUpdate(w) ==
    /\ cworker[w].pc = "get"
    /\ cq # <<>>
    /\ buffer_front(cq) # nullptr
    /\ cq' = buffer_pop(cq)
    /\ \E i \in {buffer_front(cq)} :
          /\ msa' = [msa EXCEPT ![i] =
                        update(@, msa[1].seq, [before |-> "C", kd |-> "nonneg"]).row]
          /\ op' = [op EXCEPT ![i] = @ + 1]
    /\ UNCHANGED <<cprod, cworker>>
    /\ AllFrame

\* update_all: the nullptr ends the loop and is put back
AllSentinel(w) ==
    /\ cworker[w].pc = "get"
    /\ cq # <<>>
    /\ buffer_front(cq) = nullptr
    /\ cq' = buffer_put(buffer_pop(cq), nullptr)
    /\ cworker' = [cworker EXCEPT ![w].pc = "done"]
    /\ UNCHANGED <<msa, op, cprod>>
    /\ AllFrame

\* threads.join_all()
AllJoin ==
    /\ cprod.pc = "join"
    /\ \A w \in DOMAIN cworker : cworker[w].pc = "done"
    /\ cprod' = [cprod EXCEPT !.pc = "joined"]
    /\ UNCHANGED <<msa, op, cq, cworker>>
    /\ AllFrame

SentinelInit ==
    \/ QueueInit
    \/ AllInit
    \/ ConsInit /\ Len(msa[1].seq) = 1

SentinelNext ==
    \/ phase = "matrix" /\ ProducerPut
    \/ phase = "matrix" /\ ProducerSentinel
    \/ phase = "matrix" /\ ProducerJoin
    \/ phase = "matrix" /\ \E w \in DOMAIN worker : WorkerGet(w)
    \/ phase = "matrix" /\ \E w \in DOMAIN worker : WorkerWrite(w)
    \/ phase = "matrix" /\ \E w \in DOMAIN worker : WorkerSentinel(w)
    \/ phase = "update_all" /\ AllPut
    \/ phase = "update_all" /\ \E w \in DOMAIN cworker : AllUpdate(w)
    \/ phase = "update_all" /\ \E w \in DOMAIN cworker : AllSentinel(w)
    \/ phase = "update_all" /\ AllJoin
    \/ phase = "conservation" /\ ConsPut
    \/ phase = "conservation" /\ \E w \in DOMAIN cworker : ConsGet(w)
    \/ phase = "conservation" /\ \E w \in DOMAIN cworker : ConsSentinel(w)
    \/ phase = "conservation" /\ \E w \in DOMAIN cworker : ConsLock(w)
    \/ phase = "conservation" /\ \E w \in DOMAIN cworker : ConsMerge(w)
    \/ phase = "conservation" /\ ConsJoin

\* a thread that can run does run: a blocked get or lock is woken when the
\* buffer is filled or the mutex released
SpecSentinel == SentinelInit /\ [][SentinelNext]_vars /\ WF_vars(SentinelNext)

\* join_all has returned
PoolJoined ==
    \/ phase = "matrix" /\ prod.pc = "done"
    \/ phase \in {"update_all", "conservation"} /\ cprod.pc = "joined"

\* every worker has left its function, every item put before the sentinel
\* has been processed, and one sentinel is left in the buffer
PoolDrained ==
    CASE phase = "matrix" ->
            /\ \A w \in DOMAIN worker : worker[w].pc = "exited"
            /\ queue = <<kSentinel>>
            /\ \A c \in DOMAIN writes :
                  writes[c].put > 0 =>
                      Len(writes[c].taken) = writes[c].put /\ writes[c].written = writes[c].put
         [] phase = "update_all" ->
            /\ \A w \in DOMAIN cworker : cworker[w].pc = "done"
            /\ cq = <<nullptr>>
            /\ \A i \in 2 .. Len(msa) : op[i] = 1
         [] OTHER ->
            /\ \A w \in DOMAIN cworker : cworker[w].pc = "done"
            /\ cq = <<kSentinelRow>>
            /\ \A ij \in LivePairs : TimesProcessed(ij) = 1

\* C26: with at least one worker and a first-in first-out queue every worker
\* eventually takes the sentinel, puts it back and exits, so join_all returns
\* in calculateDistanceMatrix, update_all and CalculateConservation; at that
\* point every item put before the sentinel has been processed and exactly
\* one sentinel is in the queue
SentinelProtocol == <>PoolJoined /\ [](PoolJoined => PoolDrained)

\* the pool of update_all has joined after two workers shared two rows
SentinelWitness ==
    /\ phase = "update_all" /\ PoolJoined /\ PoolDrained
    /\ Len(cworker) = 2 /\ Len(msa) = 3

----------------------------------------------------------------------------
(* The traceback of align: the cells it reads (mas.cpp 878-903) against the *)
(* cells the fill and the forced-boundary steps have assigned.              *)

\* the traceback from (x, y) reads a cell of tb that no statement assigned;
\* up to that cell the path does not depend on what the cell holds
RECURSIVE MeetsUnassigned(_, _, _)
MeetsUnassigned(tb, x, y) ==
    IF x < 0 \/ y < 0 THEN FALSE
    ELSE CASE tb[<<x, y>>] = -1 -> MeetsUnassigned(tb, x, y - 1)
           [] tb[<<x, y>>] = 1  -> MeetsUnassigned(tb, x - 1, y)
           [] tb[<<x, y>>] = 0  -> MeetsUnassigned(tb, x - 1, y - 1)
           [] OTHER -> TRUE

\* the traceback of the last call of align, from (dimX - 1, dimY - 1)
LastMeetsUnassigned ==
    /\ last # NoCall
    /\ MeetsUnassigned(last.tb, Len(last.before[last.a[1]].seq) - 1,
                       Len(last.before[last.b[1]].seq) - 1)

\* C27: the traceback of align only reads cells of tb that the fill or a
\* forced-boundary step assigned, so the default branch is never taken and the
\* loop ends with x < 0 or y < 0
TracebackAssigned == ~LastMeetsUnassigned

\* a call of align whose traceback read an unassigned cell: the debug build
\* stops in assert(false), the NDEBUG build follows whatever the cell holds
TracebackUnassignedWitness ==
    /\ LastMeetsUnassigned
    /\ ~last.returned

----------------------------------------------------------------------------
(* The storage of a seq body: m_data points to the allocation of m_space    *)
(* characters, m_seq into it, and the row is m_seq[0 .. m_size).  msa holds *)
(* the one body; op holds the characters the handle should show after the   *)
(* appends and cuts so far, and the number of calls.                        *)

kBlockSize == 512

\* the lengths of the appended strings and the number of calls
MaxCalls == 3
AppendLengths == {1, 2, kBlockSize, 2 * kBlockSize, 2 * kBlockSize + 2}

\* a character of an allocation that was never written
Fresh == "?"

\* a string of n characters that starts with c and alternates
Chunk(c, n) == [i \in 1 .. n |-> IF i % 2 = 1 THEN c ELSE "-"]

\* seq_impl(id, desc): "m_data = m_seq = nullptr", m_size(0), m_space(0);
\* m_seq is kept as the offset m_seq - m_data
seq_body ==
    [m_data |-> <<>>, m_seq |-> 0, m_size |-> 0, m_space |-> 0,
     m_begin |-> 0, m_end |-> 0]

\* memcpy(dst + at, s, Len(s)) into the allocation dst
memcpy(dst, at, s) ==
    [i \in 1 .. Len(dst) |->
        IF i > at /\ i <= at + Len(s) THEN s[i - at] ELSE dst[i]]

\* "if (m_size + seq.length() > m_space)": the new allocation of n characters
\* receives m_size characters from m_data, and m_seq is set to its start
Grown(b, len) ==
    IF b.m_size + len > b.m_space
    THEN LET k == IF b.m_space = 0 THEN kBlockSize ELSE b.m_space
             n == Max(k * 2, len)
         IN  [b EXCEPT !.m_data = [i \in 1 .. n |->
                                     IF i <= b.m_size THEN b.m_data[i] ELSE Fresh],
                       !.m_seq = 0,
                       !.m_space = n]
    ELSE b

\* the second memcpy of seq::append writes behind the allocation
Overruns(b, s) ==
    LET g == Grown(b, Len(s))
    IN  g.m_seq + g.m_size + Len(s) > Len(g.m_data)

\* seq::append on the storage, when the copy stays inside the allocation
seq_append(b, s) ==
    CHOOSE r \in
        {[g EXCEPT !.m_data = memcpy(g.m_data, g.m_seq + g.m_size, s),
                   !.m_size = g.m_size + Len(s),
                   !.m_end = g.m_size + Len(s)] :
            g \in {Grown(b, Len(s))}} : TRUE

\* seq_impl::cut on the storage, for pos + n <= m_size
seq_cut(b, pos, n) ==
    LET e1 == IF b.m_end > pos THEN b.m_end - pos ELSE 0
    IN  [b EXCEPT !.m_seq = @ + pos,
                  !.m_size = n,
                  !.m_begin = IF @ > pos THEN @ - pos ELSE 0,
                  !.m_end = IF e1 > n THEN n ELSE e1]

\* what begin() .. end() of the handle yields
Row(b) == [i \in 1 .. b.m_size |-> b.m_data[b.m_seq + i]]

BufferInit ==
    /\ phase = "storage"
    /\ msa = <<seq_body>>
    /\ op = [row |-> <<>>, calls |-> 0, cuts |-> 0]
    /\ data = <<>>
    /\ NoKernel /\ NoTree /\ NoQueue /\ NoDriver /\ NoHits /\ NoCons

BufferFrame ==
    /\ UNCHANGED <<data, mat, dist, blocks, last>>
    /\ UNCHANGED <<treeVars, queueVars, driverVars>>
    /\ UNCHANGED <<hits, res, cq, cprod, cworker, csum, lock>>

\* s.append(line); a copy behind the allocation has undefined behaviour and
\* ends the modelled run
BufferAppend ==
    /\ phase = "storage"
    /\ op.calls < MaxCalls
    /\ \E c \in {"A", "C"}, n \in AppendLengths :
         \E s \in {Chunk(c, n)} :
            /\ op' = [op EXCEPT !.row = @ \o s, !.calls = @ + 1]
            /\ IF Overruns(msa[1], s)
               THEN phase' = "overrun" /\ UNCHANGED msa
               ELSE msa' = <<seq_append(msa[1], s)>> /\ UNCHANGED phase
    /\ BufferFrame

\* s.cut(pos, n)
BufferCut ==
    /\ phase = "storage"
    /\ op.calls < MaxCalls
    /\ \E pos \in 0 .. Min(2, msa[1].m_size) :
         \E n \in {k \in {0, 1, msa[1].m_size - pos} : pos + k <= msa[1].m_size} :
            /\ msa' = <<seq_cut(msa[1], pos, n)>>
            /\ op' = [row |-> SubSeq(op.row, pos + 1, pos + n),
                      calls |-> op.calls + 1, cuts |-> op.cuts + 1]
    /\ UNCHANGED phase
    /\ BufferFrame

BufferNext == BufferAppend \/ BufferCut

SpecBuffer == BufferInit /\ [][BufferNext]_vars

\* C28: after any sequence of append and cut on a handle the row is the
\* characters appended, cut as asked, and the row lies inside the allocation
\* (offset + size <= space)
AppendPreserves ==
    phase \in {"storage", "overrun"} =>
        /\ phase = "storage"
        /\ msa[1].m_seq + msa[1].m_size <= msa[1].m_space
        /\ Row(msa[1]) = op.row

\* append after a cut lost characters of the row
AppendLosesRow ==
    /\ phase = "storage"
    /\ op.cuts > 0
    /\ msa[1].m_seq + msa[1].m_size <= msa[1].m_space
    /\ Row(msa[1]) # op.row

\* append without any cut wrote behind the allocation
AppendOverrun == phase = "overrun" /\ op.cuts = 0

----------------------------------------------------------------------------
(* The handles of seq and the bodies they share.  msa maps each handle to   *)
(* its m_impl (NoBody for a handle that was never constructed or has been   *)
(* destroyed); op holds, per body, m_refcount and the number of times       *)
(* "delete m_impl" ran on it.                                               *)

MaxHandles == 3
MaxBodies == 4

\* the m_impl of a handle that does not exist
NoBody == 0

\* "if (--m_impl->m_refcount == 0) delete m_impl"
Release(bodies, i) ==
    [bodies EXCEPT ![i] = [m_refcount |-> @.m_refcount - 1,
                           deleted |-> IF @.m_refcount - 1 = 0
                                       THEN @.deleted + 1 ELSE @.deleted]]

\* "++m_impl->m_refcount"
Acquire(bodies, i) == [bodies EXCEPT ![i].m_refcount = @ + 1]

\* operator= without "if (this != &rhs)"
AssignUnguarded(st, l, r) ==
    LET released == Release(st.bodies, st.handles[l])
        handles == [st.handles EXCEPT ![l] = st.handles[r]]
    IN  [handles |-> handles, bodies |-> Acquire(released, handles[l])]

\* seq::operator=(const seq& rhs), on the handles l and r
Assign(st, l, r) ==
    IF l # r THEN AssignUnguarded(st, l, r) ELSE st

\* seq::swap
Swap(st, l, r) ==
    [st EXCEPT !.handles = [@ EXCEPT ![l] = st.handles[r], ![r] = st.handles[l]]]

Live == {h \in DOMAIN msa : msa[h] # NoBody}
Free == {h \in DOMAIN msa : msa[h] = NoBody}

HandleInit ==
    /\ phase = "handles"
    /\ msa = [h \in 1 .. MaxHandles |-> NoBody]
    /\ op = <<>>
    /\ data = <<>>
    /\ NoKernel /\ NoTree /\ NoQueue /\ NoDriver /\ NoHits /\ NoCons

\* seq(id, desc): "m_impl(new seq_impl(id, desc))", m_refcount(1)
HandleNew ==
    /\ phase = "handles"
    /\ Len(op) < MaxBodies
    /\ \E h \in Free :
          /\ op' = Append(op, [m_refcount |-> 1, deleted |-> 0])
          /\ msa' = [msa EXCEPT ![h] = Len(op) + 1]
    /\ UNCHANGED phase
    /\ BufferFrame

\* seq(const seq& s)
HandleCopy ==
    /\ phase = "handles"
    /\ \E h \in Free, s \in Live :
          /\ msa' = [msa EXCEPT ![h] = msa[s]]
          /\ op' = Acquire(op, msa[s])
    /\ UNCHANGED phase
    /\ BufferFrame

\* l = r, also for l and r the same handle or handles of one body
HandleAssign ==
    /\ phase = "handles"
    /\ \E l \in Live, r \in Live :
         \E st \in {Assign([handles |-> msa, bodies |-> op], l, r)} :
            /\ msa' = st.handles
            /\ op' = st.bodies
    /\ UNCHANGED phase
    /\ BufferFrame

\* l.swap(r)
HandleSwap ==
    /\ phase = "handles"
    /\ \E l \in Live, r \in Live :
         \E st \in {Swap([handles |-> msa, bodies |-> op], l, r)} :
            /\ msa' = st.handles
            /\ op' = st.bodies
    /\ UNCHANGED phase
    /\ BufferFrame

\* ~seq()
HandleDestroy ==
    /\ phase = "handles"
    /\ \E h \in Live :
          /\ op' = Release(op, msa[h])
          /\ msa' = [msa EXCEPT ![h] = NoBody]
    /\ UNCHANGED phase
    /\ BufferFrame

HandleNext ==
    \/ HandleNew
    \/ HandleCopy
    \/ HandleAssign
    \/ HandleSwap
    \/ HandleDestroy

SpecHandles == HandleInit /\ [][HandleNext]_vars

\* the live handles of body i
HandlesOf(i) == {h \in Live : msa[h] = i}

\* C29: m_refcount of every body is the number of live handles that refer to
\* it, and the body has been deleted exactly once when that number is 0 and
\* never while a handle refers to it
RefcountIsHandles ==
    phase = "handles" =>
        \A i \in DOMAIN op :
            /\ op[i].m_refcount = Cardinality(HandlesOf(i))
            /\ op[i].deleted = IF HandlesOf(i) = {} THEN 1 ELSE 0

\* a body shared by two handles after an assignment, and a body deleted when
\* its last handle was assigned another body
RefcountWitness ==
    /\ phase = "handles"
    /\ \E i, j \in DOMAIN op :
          /\ Cardinality(HandlesOf(i)) = 2 /\ op[i].m_refcount = 2
          /\ HandlesOf(j) = {} /\ op[j].deleted = 1
    /\ Len(op) = 2

----------------------------------------------------------------------------
(* The vector createAlignment hands back for the root of the guide tree.   *)

\* the call for the root has returned
RootReturned == phase = "driver" /\ pc[Len(nodes)] = "done"

LeafIds == {i \in DOMAIN nodes : IsLeaf(i)}

\* how often the entry of leaf l occurs in the vector v
TimesIn(v, l) == Cardinality({k \in DOMAIN v : v[k] = LeafEntry(l)})

\* C30: when createAlignment has returned for the root, with or without
\* threads, the alignment vector holds the entry of every leaf of the tree
\* exactly once and nothing else
EveryLeafOnce ==
    RootReturned =>
        /\ \A l \in LeafIds : TimesIn(out[Len(nodes)].c, l) = 1
        /\ Len(out[Len(nodes)].c) = Cardinality(LeafIds)

\* the threaded call for the root of the balanced tree of four leaves has
\* returned: both children were interior and ran in threads
EveryLeafOnceWitness ==
    /\ RootReturned
    /\ mt
    /\ InteriorChildren(Len(nodes)) = {nodes[Len(nodes)].left, nodes[Len(nodes)].right}
    /\ Len(out[Len(nodes)].c) = 4

====
